---- MODULE Spec2Model ----
(***************************************************************************)
(* yaml-runner-go: the rule-driven command orchestration engine.           *)
(*                                                                         *)
(* One pass (app.Run) gathers the facts of the configuration, derives the  *)
(* environment, checks the rules of every action and executes the actions  *)
(* whose rules all passed.  The one-shot command runs one pass, the daemon *)
(* command repeats passes.  Every shell command is run by                  *)
(* system.Command.Execute; what a process does (exit code, output, whether *)
(* it starts, whether it is killed on timeout) is chosen by the            *)
(* environment of the program and is nondeterministic here.                *)
(*                                                                         *)
(* Strings that the code inspects character by character (process output)  *)
(* are sequences of one-character strings; opaque strings (names, command  *)
(* lines, shells) are TLA+ strings or tuples.                              *)
(***************************************************************************)
EXTENDS Integers, Sequences, FiniteSets, TLC

\* ---------------------------------------------------------------- bounds
MaxFacts == 2
MaxActions == 2
MaxRules == 2
MaxCommands == 4

\* ------------------------------------------------------------ vocabulary
NL == "\n"
NoError == "nil"
FactNames == {"loadAverage1", "apacheIsRunning"}
FirstName == "loadAverage1"
Modes == {"oneshot", "daemon"}

\* NewCommand: timeout in seconds and default interpreter
DefaultTimeout == 5
DefaultShell == "/bin/sh"
WorkingDirectory == "pwd"

\* the empty map[string]string
EmptyEnvironment == [n \in {} |-> <<>>]

\* -------------------------------------------------- the operating system
\* What a spawned process can do.  "exited": ran to completion with an exit
\* code; "notstarted": the shell could not be started; "killed": still
\* running when the context timeout expired and then killed.  The output
\* ends with a newline, and that of the failing command begins with one too.
ProcessOutcomes ==
    { [kind |-> "exited", code |-> 0, out |-> <<"v", NL>>, err |-> <<>>],
      [kind |-> "exited", code |-> 0, out |-> <<>>, err |-> <<"e", NL>>],
      [kind |-> "exited", code |-> 1, out |-> <<"v", NL>>, err |-> <<NL, "e", NL>>],
      [kind |-> "notstarted", code |-> -1, out |-> <<>>, err |-> <<>>],
      [kind |-> "killed", code |-> -1, out |-> <<"v", NL>>, err |-> <<>>] }

NoProcess == [kind |-> "none", code |-> 0, out |-> <<>>, err |-> <<>>]

\* ------------------------------------------------------- system.Command
RECURSIVE TrimLeft(_)
TrimLeft(s) ==
    IF s # <<>> /\ Head(s) = NL THEN TrimLeft(Tail(s)) ELSE s

RECURSIVE TrimRight(_)
TrimRight(s) ==
    IF s # <<>> /\ s[Len(s)] = NL THEN TrimRight(SubSeq(s, 1, Len(s) - 1)) ELSE s

\* strings.Trim(s, "\n"): removes leading and trailing newlines
Trim(s) == TrimRight(TrimLeft(s))

NewCommand(command) ==
    [ Command     |-> command,
      Environment |-> EmptyEnvironment,
      Directory   |-> WorkingDirectory,
      Timeout     |-> DefaultTimeout,
      Shell       |-> DefaultShell,
      Stdout      |-> <<>>,
      Stderr      |-> <<>>,
      Rc          |-> 0,
      Error       |-> NoError ]

\* the zero value of system.Command (Fact.Result before gathering)
ZeroCommand ==
    [ Command     |-> <<>>,
      Environment |-> EmptyEnvironment,
      Directory   |-> "",
      Timeout     |-> 0,
      Shell       |-> "",
      Stdout      |-> <<>>,
      Stderr      |-> <<>>,
      Rc          |-> 0,
      Error       |-> NoError ]

\* a cmd.Run() that reports an error only when the process did not run to
\* completion
cmdRunErrorSpawnOnly(p) ==
    CASE p.kind = "exited"     -> NoError
      [] p.kind = "notstarted" -> "start failed"
      [] OTHER                 -> "signal: killed"

\* a cmd.Run() that reports no error for a process killed on timeout
cmdRunErrorUnlessKilled(p) ==
    CASE p.kind = "exited" /\ p.code = 0 -> NoError
      [] p.kind = "exited"               -> "exit status"
      [] p.kind = "notstarted"           -> "start failed"
      [] OTHER                           -> NoError

\* err := cmd.Run(): nil only when the process ran and exited with code 0;
\* an *exec.ExitError for a non-zero exit, another error when the process
\* could not be started or was killed on timeout.
cmdRunError(p) ==
    CASE p.kind = "exited" /\ p.code = 0 -> NoError
      [] p.kind = "exited"               -> "exit status"
      [] p.kind = "notstarted"           -> "start failed"
      [] OTHER                           -> "signal: killed"

\* an exit code that is 0 for a process that was killed or did not start
ExitCodeOfExited(p) == IF p.kind = "exited" THEN p.code ELSE 0

\* cmd.ProcessState.ExitCode(): the exit code, -1 when the process did not
\* start or was terminated by a signal.
ExitCode(p) == IF p.kind = "exited" THEN p.code ELSE -1

\* (c *Command) Execute, given what the process did
Execute(c, p) ==
    [ c EXCEPT !.Stdout = Trim(p.out),
               !.Stderr = Trim(p.err),
               !.Rc     = ExitCode(p),
               !.Error  = cmdRunError(p) ]

\* a cmd.Start() in place of cmd.Run(): the caller goes on at once
cmdRunNoWait == "ready"

\* cmd.Run() starts the process and waits for it: the caller is blocked
\* until the process has exited or has been killed.
cmdRun == "blocked"

\* ------------------------------------------------------------ app: facts
\* Fact.logFactGathered
logFactGathered(fact, c) ==
    [ msg     |-> "fact gathered",
      level   |-> CASE c.Error # NoError -> "error"
                    [] c.Stderr # <<>>   -> "warn"
                    [] OTHER             -> "debug",
      name    |-> fact.Name,
      command |-> fact.Command,
      dir     |-> c.Directory,
      rc      |-> c.Rc,
      stdout  |-> c.Stdout,
      stderr  |-> c.Stderr,
      error   |-> c.Error ]

\* a toEnvironment that forgets the exit code
toEnvironmentAnyRc(facts) ==
    [ key \in { k \in DOMAIN facts : facts[k].Result.Stdout # <<>> }
        |-> facts[key].Result.Stdout ]

\* Facts.toEnvironment
toEnvironment(facts) ==
    [ key \in { k \in DOMAIN facts :
                  facts[k].Result.Stdout # <<>> /\ facts[k].Result.Rc = 0 }
        |-> facts[key].Result.Stdout ]

\* a gatherFacts that leaves the shell of NewCommand
factCommandDefaultShell(fact) == NewCommand(fact.Command)

\* gatherFacts: the command built for one fact
factCommand(fact) ==
    IF fact.Shell # ""
      THEN [NewCommand(fact.Command) EXCEPT !.Shell = fact.Shell]
      ELSE NewCommand(fact.Command)

\* a gatherFacts that keeps the first fact gathered under a name
saveFactKeepFirst(gathered, fact, c) ==
    [ k \in (DOMAIN gathered) \cup {fact.Name} |->
        IF k \in DOMAIN gathered THEN gathered[k] ELSE [fact EXCEPT !.Result = c] ]

\* a gatherFacts that keeps the fact gathered before under the name when the
\* new one gives no value
saveFactKeepValue(gathered, fact, c) ==
    IF fact.Name \in DOMAIN gathered /\ (c.Rc # 0 \/ c.Stdout = <<>>)
    THEN gathered
    ELSE [ k \in (DOMAIN gathered) \cup {fact.Name} |->
             IF k = fact.Name THEN [fact EXCEPT !.Result = c] ELSE gathered[k] ]

\* gatherFacts: gatheredFacts[fact.Name] = fact, with fact.Result = c
saveFact(gathered, fact, c) ==
    [ k \in (DOMAIN gathered) \cup {fact.Name} |->
        IF k = fact.Name THEN [fact EXCEPT !.Result = c] ELSE gathered[k] ]

\* a gatherFacts that returns at the first fact whose command failed
nextFactStopOnError(facts, i, c) == IF c.Error # NoError THEN Len(facts) + 1 ELSE i + 1

\* a gatherFacts that runs a fact again when its command failed
nextFactAgain(facts, i, c) == IF c.Rc # 0 THEN i ELSE i + 1

\* gatherFacts: the range loop goes on to the next fact whatever c holds
nextFact(facts, i, c) == i + 1

\* ---------------------------------------------------------- app: actions
\* executeActions: the environment handed to every rule and action command
\* is the one derived from the gathered facts
executeActionsEnvironment(facts) == toEnvironment(facts)

\* a checkActionRules that does not hand the environment to the rule
ruleCommandNoEnvironment(rule, environment) == NewCommand(rule)

\* checkActionRules: the command built for one rule
ruleCommand(rule, environment) ==
    [NewCommand(rule) EXCEPT !.Environment = environment]

\* executeActions: the command built for one action
actionCommand(action, environment) ==
    [NewCommand(action.Command) EXCEPT !.Environment = environment]

\* a logRuleChecked that picks the level as logFactGathered does
logRuleCheckedBySeverity(rule, c) ==
    [ msg     |-> "rule checked",
      level   |-> CASE c.Error # NoError -> "error"
                    [] c.Stderr # <<>>   -> "warn"
                    [] OTHER             -> "debug",
      name    |-> "",
      command |-> rule,
      dir     |-> c.Directory,
      rc      |-> c.Rc,
      stdout  |-> c.Stdout,
      stderr  |-> c.Stderr,
      error   |-> c.Error ]

\* logRuleChecked
logRuleChecked(rule, c) ==
    [ msg     |-> "rule checked",
      level   |-> "debug",
      name    |-> "",
      command |-> rule,
      dir     |-> c.Directory,
      rc      |-> c.Rc,
      stdout  |-> c.Stdout,
      stderr  |-> c.Stderr,
      error   |-> c.Error ]

\* a logActionExecuted that looks at stderr before the error
logActionExecutedWarnFirst(action, c) ==
    [ msg     |-> "action executed",
      level   |-> CASE c.Stderr # <<>>   -> "warn"
                    [] c.Error # NoError -> "error"
                    [] OTHER             -> "debug",
      name    |-> "",
      command |-> action.Command,
      dir     |-> c.Directory,
      rc      |-> c.Rc,
      stdout  |-> c.Stdout,
      stderr  |-> c.Stderr,
      error   |-> c.Error ]

\* logActionExecuted
logActionExecuted(action, c) ==
    [ msg     |-> "action executed",
      level   |-> CASE c.Error # NoError -> "error"
                    [] c.Stderr # <<>>   -> "warn"
                    [] OTHER             -> "debug",
      name    |-> "",
      command |-> action.Command,
      dir     |-> c.Directory,
      rc      |-> c.Rc,
      stdout  |-> c.Stdout,
      stderr  |-> c.Stderr,
      error   |-> c.Error ]

\* a checkActionRules that goes on to the next rule after a failing one
nextRuleNoShortCircuit(a, r, c) == <<a, r + 1>>

\* checkActionRules: position <<action, rule>> after rule r of action a has
\* been run with result c: return false at a non-zero exit code (the action
\* is skipped), otherwise go on to the next rule
nextRule(a, r, c) ==
    IF c.Rc # 0 THEN <<a + 1, 1>> ELSE <<a, r + 1>>

\* a loop over action.Rules that stops one rule early
rulesExhaustedEarly(action, r) == r >= Len(action.Rules)

\* checkActionRules: the range loop over action.Rules has run off the end of
\* the list at rule index r, so that true is returned
rulesExhausted(action, r) == r > Len(action.Rules)

\* an executeActions that tries a failed action again
nextActionRetry(actions, a, c) == IF c.Rc # 0 THEN a ELSE a + 1

\* executeActions: the range loop goes on to the next action whatever c holds
nextAction(actions, a, c) == a + 1

\* ----------------------------------------------------------------- app: run
\* Run: system.Log("info", "starting", ...), once per process
logStarting ==
    [ msg     |-> "starting",
      level   |-> "info",
      name    |-> "",
      command |-> <<>>,
      dir     |-> "",
      rc      |-> 0,
      stdout  |-> <<>>,
      stderr  |-> <<>>,
      error   |-> NoError ]

\* ------------------------------------------------------- configurations
\* Command lines are opaque to the engine; each one is named by its place
\* in the configuration.
FactAt(i, name) ==
    [Name |-> name, Command |-> <<"fact", i>>, Shell |-> "", Result |-> ZeroCommand]

ActionAt(a, nrules) ==
    [ Command |-> <<"action", a>>,
      Rules   |-> [r \in 1..nrules |-> <<"rule", a, r>>],
      Shell   |-> "" ]

\* Fact names are opaque keys: the lists are taken up to renaming, the first
\* fact being named FirstName; later facts repeat a name or bring a new one.
FactLists ==
    UNION { { [i \in 1..n |-> FactAt(i, names[i])] :
                names \in { g \in [1..n -> FactNames] : n > 0 => g[1] = FirstName } }
            : n \in 0..MaxFacts }

RECURSIVE SumTo(_, _)
SumTo(f, n) == IF n = 0 THEN 0 ELSE f[n] + SumTo(f, n - 1)

\* MaxRules bounds the rules of a configuration, over all its actions
ActionLists ==
    UNION { { [a \in 1..n |-> ActionAt(a, nr[a])] :
                nr \in { g \in [1..n -> 0..MaxRules] : SumTo(g, n) <= MaxRules } }
            : n \in 0..MaxActions }

RulesIn(actions) == SumTo([a \in 1..Len(actions) |-> Len(actions[a].Rules)], Len(actions))

\* the commands a pass over the configuration can run
CommandsIn(facts, actions) == Len(facts) + RulesIn(actions) + Len(actions)

Configs ==
    { [Facts |-> fa[1], Actions |-> fa[2]] :
        fa \in { x \in FactLists \X ActionLists :
                   CommandsIn(x[1], x[2]) <= MaxCommands } }

\* ------------------------------------------------------------ app: config
\* The bytes of the strings this model uses (Go strings are UTF-8).
utf8(s) ==
    CASE s = "" -> <<>>
      [] s = "loadAverage1" -> <<108, 111, 97, 100, 65, 118, 101, 114, 97,
                               103, 101, 49>>
      [] s = "apacheIsRunning" -> <<97, 112, 97, 99, 104, 101, 73, 115, 82,
                                  117, 110, 110, 105, 110, 103>>
      [] s = "info" -> <<105, 110, 102, 111>>
      [] s = "debug" -> <<100, 101, 98, 117, 103>>
      [] s = "2s" -> <<50, 115>>
      [] s = "1500us" -> <<49, 53, 48, 48, 117, 115>>
      [] s = "1ms" -> <<49, 109, 115>>
      [] s = "-1s" -> <<45, 49, 115>>
      [] s = "soon" -> <<115, 111, 111, 110>>
      [] s = "run.log" -> <<114, 117, 110, 46, 108, 111, 103>>
      [] s = "args.log" -> <<97, 114, 103, 115, 46, 108, 111, 103>>
      [] s = "fact" -> <<102, 97, 99, 116>>
      [] s = "rule" -> <<114, 117, 108, 101>>
      [] s = "action" -> <<97, 99, 116, 105, 111, 110>>
      [] s = "aca" -> <<97, 99, 97>>
      [] s = "bab" -> <<98, 97, 98>>
      [] s = "/bin/sh" -> <<47, 98, 105, 110, 47, 115, 104>>
      [] s = "/bin/bash" -> <<47, 98, 105, 110, 47, 98, 97, 115, 104>>

\* A command line <<word, n, ...>> reads word followed by the digits n ...
commandText(c) == utf8(c[1]) \o [i \in 1..(Len(c) - 1) |-> 48 + c[i + 1]]

\* encoding/json: the literal text json.Marshal writes around the values of a
\* Config; the fields come in the order of the struct, none is omitted
jsonText ==
      \* {"Daemon":{"Interval":
    [ configDaemon |-> <<123, 34, 68, 97, 101, 109, 111, 110, 34, 58, 123,
                       34, 73, 110, 116, 101, 114, 118, 97, 108, 34, 58>>,
      \* },"Logging":{"File":
      configLogging |-> <<125, 44, 34, 76, 111, 103, 103, 105, 110, 103, 34,
                        58, 123, 34, 70, 105, 108, 101, 34, 58>>,
      \* ,"Level":
      loggingLevel |-> <<44, 34, 76, 101, 118, 101, 108, 34, 58>>,
      \* ,"Quiet":
      loggingQuiet |-> <<44, 34, 81, 117, 105, 101, 116, 34, 58>>,
      \* ,"JSON":
      loggingJSON |-> <<44, 34, 74, 83, 79, 78, 34, 58>>,
      \* },"Facts":
      configFacts |-> <<125, 44, 34, 70, 97, 99, 116, 115, 34, 58>>,
      \* ,"Actions":
      configActions |-> <<44, 34, 65, 99, 116, 105, 111, 110, 115, 34, 58>>,
      \* ,"Hash":
      configHash |-> <<44, 34, 72, 97, 115, 104, 34, 58>>,
      \* {"Name":
      factName |-> <<123, 34, 78, 97, 109, 101, 34, 58>>,
      \* ,"Command":
      command |-> <<44, 34, 67, 111, 109, 109, 97, 110, 100, 34, 58>>,
      \* ,"Shell":
      shell |-> <<44, 34, 83, 104, 101, 108, 108, 34, 58>>,
      \* ,"Result":
      factResult |-> <<44, 34, 82, 101, 115, 117, 108, 116, 34, 58>>,
      \* the zero system.Command: {"Command":"","Environment":null, ...
      \* ..., "Stdout":"","Stderr":"","Rc":0,"Error":null}
      zeroCommand |-> <<123, 34, 67, 111, 109, 109, 97, 110, 100, 34, 58, 34,
                      34, 44, 34, 69, 110, 118, 105, 114, 111, 110, 109, 101,
                      110, 116, 34, 58, 110, 117, 108, 108, 44, 34, 68, 105,
                      114, 101, 99, 116, 111, 114, 121, 34, 58, 34, 34, 44,
                      34, 84, 105, 109, 101, 111, 117, 116, 34, 58, 48, 44,
                      34, 83, 104, 101, 108, 108, 34, 58, 34, 34, 44, 34, 83,
                      116, 100, 111, 117, 116, 34, 58, 34, 34, 44, 34, 83,
                      116, 100, 101, 114, 114, 34, 58, 34, 34, 44, 34, 82,
                      99, 34, 58, 48, 44, 34, 69, 114, 114, 111, 114, 34, 58,
                      110, 117, 108, 108, 125>>,
      \* {"Command":
      actionCommand |-> <<123, 34, 67, 111, 109, 109, 97, 110, 100, 34, 58>>,
      \* ,"Rules":
      actionRules |-> <<44, 34, 82, 117, 108, 101, 115, 34, 58>>,
      \* null
      null |-> <<110, 117, 108, 108>>,
      \* true
      true |-> <<116, 114, 117, 101>>,
      \* false
      false |-> <<102, 97, 108, 115, 101>> ]

\* encoding/json: a string between quotes (the strings of this model need no
\* escaping)
jsonString(bytes) == <<34>> \o bytes \o <<34>>

jsonBool(b) == IF b THEN jsonText.true ELSE jsonText.false

\* encoding/json: the items of a slice separated by commas
RECURSIVE jsonItems(_, _)
jsonItems(items, i) ==
    IF i > Len(items) THEN <<>>
    ELSE (IF i > 1 THEN <<44>> ELSE <<>>) \o items[i] \o jsonItems(items, i + 1)

\* encoding/json: a nil slice is null, any other is [item,...]; the slices of
\* a merged Config are nil when they are empty
jsonSlice(items) ==
    IF items = <<>> THEN jsonText.null ELSE <<91>> \o jsonItems(items, 1) \o <<93>>

\* A uint32 is kept as its two 16-bit halves <<high, low>>.
\* encoding/json: the decimal digits of a uint32
RECURSIVE jsonUint32(_)
jsonUint32(h) ==
    LET low      == (h[1] % 10) * 65536 + h[2]
        quotient == <<h[1] \div 10, low \div 10>>
        digit    == <<48 + (low % 10)>>
    IN IF quotient = <<0, 0>> THEN digit ELSE jsonUint32(quotient) \o digit

jsonFact(fact) ==
    jsonText.factName \o jsonString(utf8(fact.Name))
    \o jsonText.command \o jsonString(commandText(fact.Command))
    \o jsonText.shell \o jsonString(utf8(fact.Shell))
    \o jsonText.factResult \o jsonText.zeroCommand \o <<125>>

jsonAction(action) ==
    jsonText.actionCommand \o jsonString(commandText(action.Command))
    \o jsonText.actionRules
    \o jsonSlice([r \in 1..Len(action.Rules) |-> jsonString(commandText(action.Rules[r]))])
    \o jsonText.shell \o jsonString(utf8(action.Shell)) \o <<125>>

\* a json.Marshal that leaves the commands of the facts out
jsonMarshalNoFacts(c) ==
    jsonText.configDaemon \o jsonString(utf8(c.Daemon.Interval))
    \o jsonText.configLogging \o jsonString(utf8(c.Logging.File))
    \o jsonText.loggingLevel \o jsonString(utf8(c.Logging.Level))
    \o jsonText.loggingQuiet \o jsonBool(c.Logging.Quiet)
    \o jsonText.loggingJSON \o jsonBool(c.Logging.JSON)
    \o jsonText.configFacts \o jsonText.null
    \o jsonText.configActions
    \o jsonSlice([a \in 1..Len(c.Actions) |-> jsonAction(c.Actions[a])])
    \o jsonText.configHash \o jsonUint32(c.Hash) \o <<125>>

\* CalculateHash: mockJSONMarshal(c), the canonical bytes of a Config
jsonMarshal(c) ==
    jsonText.configDaemon \o jsonString(utf8(c.Daemon.Interval))
    \o jsonText.configLogging \o jsonString(utf8(c.Logging.File))
    \o jsonText.loggingLevel \o jsonString(utf8(c.Logging.Level))
    \o jsonText.loggingQuiet \o jsonBool(c.Logging.Quiet)
    \o jsonText.loggingJSON \o jsonBool(c.Logging.JSON)
    \o jsonText.configFacts
    \o jsonSlice([f \in 1..Len(c.Facts) |-> jsonFact(c.Facts[f])])
    \o jsonText.configActions
    \o jsonSlice([a \in 1..Len(c.Actions) |-> jsonAction(c.Actions[a])])
    \o jsonText.configHash \o jsonUint32(c.Hash) \o <<125>>

\* hash/adler32: a starts at 1 and adds each byte, b starts at 0 and adds
\* each a, both modulo 65521.  adler32Sum gives, for the bytes first..last,
\* what they add to a and what they add to b (a byte adds itself to b once
\* for every byte from it to the last); the sums of two halves combine, so
\* the sum of a long text is taken by halves.
RECURSIVE adler32Sum(_, _, _)
adler32Sum(data, first, last) ==
    IF first > last THEN <<0, 0>>
    ELSE IF first = last THEN <<data[first] % 65521, data[first] % 65521>>
    ELSE LET mid   == (first + last) \div 2
             left  == adler32Sum(data, first, mid)
             right == adler32Sum(data, mid + 1, last)
         IN << (left[1] + right[1]) % 65521,
               (left[2] + (last - mid) * left[1] + right[2]) % 65521 >>

\* adler32Hash: Sum32 of the data, b in the high half and a in the low half
adler32Hash(data) ==
    LET sum == adler32Sum(data, 1, Len(data))
    IN << (Len(data) + sum[2]) % 65521, (1 + sum[1]) % 65521 >>

ZeroHash == <<0, 0>>

\* a CalculateHash that forgets c.Hash = 0
CalculateHashKeepHash(c) == [c EXCEPT !.Hash = adler32Hash(jsonMarshal(c))]

\* Config.CalculateHash: c.Hash = 0, then the Adler-32 sum of the JSON of c
CalculateHash(c) ==
    LET zeroed == [c EXCEPT !.Hash = ZeroHash]
    IN [zeroed EXCEPT !.Hash = adler32Hash(jsonMarshal(zeroed))]

\* a Merge that assigns every scalar field, empty or not
MergeOverwrite(c, m) ==
    [ Daemon  |-> m.Daemon,
      Logging |-> m.Logging,
      Facts   |-> c.Facts \o m.Facts,
      Actions |-> c.Actions \o m.Actions,
      Hash    |-> c.Hash ]

\* a Merge that treats the lists as it treats the scalars: a list of m that
\* is not empty replaces the list of c
MergeReplaceLists(c, m) ==
    [ Daemon  |-> [Interval |-> IF m.Daemon.Interval # "" THEN m.Daemon.Interval
                                ELSE c.Daemon.Interval],
      Logging |-> [ File  |-> IF m.Logging.File # "" THEN m.Logging.File ELSE c.Logging.File,
                    Level |-> IF m.Logging.Level # "" THEN m.Logging.Level ELSE c.Logging.Level,
                    Quiet |-> IF m.Logging.Quiet THEN m.Logging.Quiet ELSE c.Logging.Quiet,
                    JSON  |-> IF m.Logging.JSON THEN m.Logging.JSON ELSE c.Logging.JSON ],
      Facts   |-> IF Len(m.Facts) > 0 THEN m.Facts ELSE c.Facts,
      Actions |-> IF Len(m.Actions) > 0 THEN m.Actions ELSE c.Actions,
      Hash    |-> c.Hash ]

\* Config.Merge: a scalar field of m is taken when it is not "" or false, the
\* lists of m are appended
Merge(c, m) ==
    [ Daemon  |-> [Interval |-> IF m.Daemon.Interval # "" THEN m.Daemon.Interval
                                ELSE c.Daemon.Interval],
      Logging |-> [ File  |-> IF m.Logging.File # "" THEN m.Logging.File ELSE c.Logging.File,
                    Level |-> IF m.Logging.Level # "" THEN m.Logging.Level ELSE c.Logging.Level,
                    Quiet |-> IF m.Logging.Quiet THEN m.Logging.Quiet ELSE c.Logging.Quiet,
                    JSON  |-> IF m.Logging.JSON THEN m.Logging.JSON ELSE c.Logging.JSON ],
      Facts   |-> IF Len(m.Facts) > 0 THEN c.Facts \o m.Facts ELSE c.Facts,
      Actions |-> IF Len(m.Actions) > 0 THEN c.Actions \o m.Actions ELSE c.Actions,
      Hash    |-> c.Hash ]

\* Config{}
ZeroConfig ==
    [ Daemon  |-> [Interval |-> ""],
      Logging |-> [File |-> "", Level |-> "", Quiet |-> FALSE, JSON |-> FALSE],
      Facts   |-> <<>>,
      Actions |-> <<>>,
      Hash    |-> ZeroHash ]

\* Run: the default settings
RunDefaults ==
    [ZeroConfig EXCEPT !.Daemon.Interval = "2s", !.Logging.Level = "info"]

\* LoadConfigFile: the Config the file gives, when it can be read, parsed and
\* validated
LoadConfigFile(f) == f.Config

\* a Run that merges the file over the command-line configuration
mergeConfigurationArgsFirst(contentFile, configArgs) ==
    Merge(Merge(RunDefaults, configArgs), contentFile)

\* Run: the defaults, then the file, then the arguments
mergeConfiguration(contentFile, configArgs) ==
    Merge(Merge(RunDefaults, contentFile), configArgs)

\* ------------------------------------------------------------------- cmd
\* rootCmd: the flags none of which was given
NoFlags ==
    [ LogFile |-> "", LogJSON |-> FALSE, QuietMode |-> FALSE, DebugMode |-> FALSE,
      DaemonInterval |-> "" ]

\* oneshotCmd.Run: the configuration made of the flags
oneshotOverwrite(fl) ==
    [ZeroConfig EXCEPT !.Logging =
        [ File  |-> fl.LogFile,
          Quiet |-> fl.QuietMode,
          JSON  |-> fl.LogJSON,
          Level |-> IF fl.DebugMode THEN "debug" ELSE "info" ]]

\* daemonCmd.Run: the configuration made of the flags
daemonOverwrite(fl) ==
    [oneshotOverwrite(fl) EXCEPT !.Daemon.Interval = fl.DaemonInterval]

overwrite(m, fl) == IF m = "daemon" THEN daemonOverwrite(fl) ELSE oneshotOverwrite(fl)

\* time.ParseDuration on the interval strings of this model, in nanoseconds;
\* daemonCmd.Run drops the error, which leaves the zero Duration
ParseDuration(str) ==
    CASE str = "2s"     -> 2000000000
      [] str = "1500us" -> 1500000
      [] str = "1ms"    -> 1000000
      [] str = "-1s"    -> -1000000000
      [] OTHER          -> 0

\* Duration.Milliseconds: the whole milliseconds, rounded towards zero
Milliseconds(d) == IF d >= 0 THEN d \div 1000000 ELSE -((-d) \div 1000000)

\* a loop that sleeps whatever the pass took
shouldSleepAlways(elapsed, minInterval) == TRUE

\* daemonCmd.Run: runDuration < time.Duration(minInterval)
shouldSleep(elapsed, minInterval) == elapsed < minInterval

\* a loop that sleeps the whole interval after every pass
sleepWholeInterval(elapsed, minInterval) == Milliseconds(minInterval)

\* daemonCmd.Run: diff, the milliseconds to sleep
sleepMilliseconds(elapsed, minInterval) == Milliseconds(minInterval) - Milliseconds(elapsed)

\* a loop that parses the interval of the flag alone
loopIntervalOfFlags(c, fl) == ParseDuration(fl.DaemonInterval)

\* daemonCmd.Run: minInterval, parsed from the configuration Run returned
loopInterval(c, fl) == ParseDuration(c.Daemon.Interval)

\* --------------------------------------------------------- system: errors
\* a table of exit statuses with a LogLevelError before the OSError
returnCodeLogLevelError(name) ==
    CASE name = "OK"              -> 0
      [] name = "Unknown"         -> 1
      [] name = "IOError"         -> 64
      [] name = "ParseError"      -> 65
      [] name = "ValidationError" -> 66
      [] name = "LogLevelError"   -> 67
      [] name = "OSError"         -> 68
      [] OTHER                    -> 1

\* FatalError: code, exists := returnCodes[name]; code = 1 when the name is
\* not in the table
returnCode(name) ==
    CASE name = "OK"              -> 0
      [] name = "Unknown"         -> 1
      [] name = "IOError"         -> 64
      [] name = "ParseError"      -> 65
      [] name = "ValidationError" -> 66
      [] name = "OSError"         -> 67
      [] OTHER                    -> 1

\* -------------------------------------------------------- system: logging
\* var loggers map[string]*slog.Logger: nil until LogInit has run
NoLoggers == [h \in {} |-> [Level |-> "", JSON |-> FALSE]]

\* LogInit: the minimum level of the handlers
minimumLevel(level) ==
    CASE level = "info"  -> "info"
      [] level = "warn"  -> "warn"
      [] level = "error" -> "error"
      [] OTHER           -> "debug"

\* LogInit: the loggers of a logging configuration: "file" when a file is
\* named, "stdout" and "stderr" unless quiet
LogInit(lc) ==
    [ h \in (IF lc.File # "" THEN {"file"} ELSE {})
             \cup (IF ~lc.Quiet THEN {"stdout", "stderr"} ELSE {})
        |-> [Level |-> minimumLevel(lc.Level), JSON |-> lc.JSON] ]

\* logTargets: stderr for an error and stdout for any other level, then the
\* file, each when its logger is there
logTargets(level, lgs) ==
    SelectSeq(<<IF level = "error" THEN "stderr" ELSE "stdout", "file">>,
              LAMBDA h : h \in DOMAIN lgs)

\* slog: the levels in order
levelRank(level) ==
    CASE level = "debug" -> 1
      [] level = "info"  -> 2
      [] level = "warn"  -> 3
      [] OTHER           -> 4

\* Log: the targets a message of the level is written to: the loggers of
\* logTargets whose minimum level lets it through
logLines(level, lgs) ==
    SelectSeq(logTargets(level, lgs),
              LAMBDA h : levelRank(level) >= levelRank(lgs[h].Level))

\* ----------------------------------------------------------- log events
\* system.Log(level, message, ...): the fields every event of the trace has
logEvent(level, message) ==
    [ msg     |-> message,
      level   |-> level,
      name    |-> "",
      command |-> <<>>,
      dir     |-> "",
      rc      |-> 0,
      stdout  |-> <<>>,
      stderr  |-> <<>>,
      error   |-> NoError ]

\* FatalError: Log("error", "FATAL ERROR: name error", ...)
logFatalError(name) == logEvent("error", "FATAL ERROR") @@ [kind |-> name]

\* Run: the three events of a configuration whose checksum is new
logConfigurationChanged(c) ==
    << logEvent("debug", "configuration hash") @@ [hash |-> c.Hash],
       logEvent("info", "configuration loaded")
           @@ [facts |-> Len(c.Facts), actions |-> Len(c.Actions)],
       logEvent("debug", "configuration dump") @@ [config |-> c] >>

\* daemonCmd.Run: Log("debug", "sleeping", "ms", wait)
logSleeping(ms) == logEvent("debug", "sleeping") @@ [ms |-> ms]

\* a Run that reports the configuration in every pass
configurationChangedAlways(hash, stored) == TRUE

\* Run: config.Hash != configurationHash
configurationChanged(hash, stored) == hash # stored

\* a Run that gathers the facts only when the checksum is new
firstFactWhenChanged(facts, changed) == IF changed THEN 1 ELSE Len(facts) + 1

\* Run: gatherFacts(config.Facts) comes after the if and ranges over the whole
\* list, whether or not the checksum was new
firstFact(facts, changed) == 1

\* a Run that reports a new checksum and does not keep it
storeHashNever(hash, stored) == stored

\* Run: configurationHash = config.Hash, inside the if
storeHash(hash, stored) == IF configurationChanged(hash, stored) THEN hash ELSE stored

\* ------------------------------------------- inputs of the scheduling loop
\* a fact whose command is the given word
WordFact(word) ==
    [Name |-> FirstName, Command |-> <<word, 1>>, Shell |-> "", Result |-> ZeroCommand]

\* the shell the facts and actions of the README name
OtherShell == "/bin/bash"

\* the facts and actions of the files: one action without rules, or a fact
\* and an action with a rule; the fact commands aca1 and bab1 differ and
\* have the same Adler-32 sum; the second fact and the action of the last
\* name a shell of their own
DaemonEngines ==
    { [Facts |-> <<>>, Actions |-> <<ActionAt(1, 0)>>],
      [Facts |-> <<WordFact("aca")>>, Actions |-> <<ActionAt(1, 1)>>],
      [Facts |-> <<WordFact("bab")>>, Actions |-> <<ActionAt(1, 1)>>],
      [ Facts   |-> <<FactAt(1, FirstName),
                      [FactAt(2, "apacheIsRunning") EXCEPT !.Shell = OtherShell]>>,
        Actions |-> <<[ActionAt(1, 1) EXCEPT !.Shell = OtherShell]>> ] }

\* the daemon and logging sections of the files: none, or every field set,
\* or an interval alone
DaemonSections ==
    { [Daemon |-> ZeroConfig.Daemon, Logging |-> ZeroConfig.Logging],
      [ Daemon  |-> [Interval |-> "1500us"],
        Logging |-> [File |-> "run.log", Level |-> "debug", Quiet |-> TRUE, JSON |-> TRUE] ],
      [Daemon |-> [Interval |-> "1ms"], Logging |-> ZeroConfig.Logging] }

ConfigFile(engine, section) ==
    [ Error  |-> "OK",
      Config |-> [ Daemon  |-> section.Daemon,
                   Logging |-> section.Logging,
                   Facts   |-> engine.Facts,
                   Actions |-> engine.Actions,
                   Hash    |-> ZeroHash ] ]

\* a file LoadConfigFile ends the process on
BrokenFile(kind) == [Error |-> kind, Config |-> ZeroConfig]

DaemonFiles ==
    { ConfigFile(e, s) : e \in DaemonEngines, s \in DaemonSections }
    \cup { BrokenFile(kind) : kind \in {"IOError", "ParseError", "ValidationError"} }

\* the flags: none; a log file, quiet and debug with an interval; an
\* interval below zero; an interval that does not parse
DaemonFlags ==
    { NoFlags,
      [ LogFile |-> "args.log", LogJSON |-> FALSE, QuietMode |-> TRUE, DebugMode |-> TRUE,
        DaemonInterval |-> "2s" ],
      [NoFlags EXCEPT !.DaemonInterval = "-1s"],
      [NoFlags EXCEPT !.DaemonInterval = "soon"] }

\* ----------------------------------------------------------------- state
VARIABLES
    mode,           \* "oneshot" or "daemon": the command that was started
    applicationStarted, \* process-wide: the "starting" event was logged
    config,         \* the merged configuration of the pass: Facts, Actions
    pc,             \* position of the program
    sub,            \* "ready", or "blocked" inside cmd.Run()
    inflight,       \* number of processes started and not yet finished
    fi,             \* gatherFacts: index of the fact being gathered
    ai,             \* executeActions: index of the action being processed
    ri,             \* checkActionRules: index of the rule being checked
    gatheredFacts,  \* gatherFacts: map fact name -> Fact with Result
    environment,    \* executeActions: environment given to the commands
    calls,          \* history: the commands started in this pass, in order
    log,            \* the log events of this pass, in order
    flags,          \* the command-line flags (package variables of cmd)
    file,           \* the configuration file as LoadConfigFile finds it now
    configurationHash, \* process-wide: the checksum last reported
    runDuration,    \* daemonCmd.Run: stopTime.Sub(startTime), nanoseconds
    wait,           \* daemonCmd.Run: the sleep in milliseconds
    exitStatus,     \* the status the process exited with
    loggers,        \* process-wide: the loggers LogInit set up last
    before,         \* history: the environment of the pass before this one,
                    \* kept until the facts of this pass are gathered
    failing         \* process-wide: the one of mockJSONMarshal and
                    \* mockAdler32Hash that returns an error, if any

loopVars ==
    <<flags, file, configurationHash, runDuration, wait, exitStatus, loggers, before,
      failing>>

vars == <<mode, applicationStarted, config, pc, sub, inflight, fi, ai, ri, gatheredFacts,
          environment, calls, log, flags, file, configurationHash, runDuration, wait,
          exitStatus, loggers, before, failing>>

NoFacts == [n \in {} |-> FactAt(0, "")]

\* mockJSONMarshal is json.Marshal and mockAdler32Hash is adler32Hash
NoMock == ""

\* the functions a test replaces by one that returns an error
Mocks == {"mockJSONMarshal", "mockAdler32Hash"}

\* a CalculateHash that ignores the errors and goes on
calculateHashGoesOn(mock) == FALSE

\* CalculateHash: panic(err) when mockJSONMarshal or mockAdler32Hash returns
\* an error
calculateHashPanics(mock) == mock \in Mocks

NoDuration == -1
NoWait == -1
NoExit == -1

\* the passes take no time, a millisecond, a little more, or two seconds
RunDurations == {0, 1000000, 1200000, 2000000000}

\* a configuration file that holds the facts and actions of c and no daemon
\* or logging section
EngineFile(c) ==
    [ Error  |-> "OK",
      Config |-> [ZeroConfig EXCEPT !.Facts = c.Facts, !.Actions = c.Actions] ]

\* what every process starts with, whatever its flags and file
Boot ==
    /\ applicationStarted = FALSE
    /\ configurationHash = ZeroHash
    /\ config = ZeroConfig
    /\ runDuration = NoDuration
    /\ wait = NoWait
    /\ exitStatus = NoExit
    /\ loggers = NoLoggers
    /\ before = EmptyEnvironment
    /\ failing = NoMock
    /\ pc = "idle"
    /\ sub = "ready"
    /\ inflight = 0
    /\ fi = 1
    /\ ai = 1
    /\ ri = 1
    /\ gatheredFacts = NoFacts
    /\ environment = EmptyEnvironment
    /\ calls = <<>>
    /\ log = <<>>

\* the engine: no flag is given and the file holds any list of facts and
\* actions within the bounds
Init ==
    /\ mode \in Modes
    /\ flags = NoFlags
    /\ file \in { EngineFile(c) : c \in Configs }
    /\ Boot

\* a command is handed to cmd.Run(): the process starts
Started(kind, i, r, c) ==
    /\ calls' = Append(calls, [kind |-> kind, idx |-> i, rule |-> r, done |-> FALSE,
                               proc |-> NoProcess, cmd |-> c])
    /\ inflight' = inflight + 1
    /\ sub' = cmdRun

\* cmd.Run() returns: the last started process has finished as p
Finished(p, c) ==
    /\ calls' = [calls EXCEPT ![Len(calls)] =
                    [@ EXCEPT !.done = TRUE, !.proc = p, !.cmd = c]]
    /\ inflight' = inflight - 1
    /\ sub' = "ready"

\* --------------------------------------------------------------- actions
\* a Run that logs the start of the process in every pass
startingEventsAlways(started) == <<logStarting>>

\* Run: if !applicationStarted { log "starting"; applicationStarted = true }
startingEvents(started) == IF ~started THEN <<logStarting>> ELSE <<>>

\* oneshotCmd.Run / one iteration of the loop of daemonCmd.Run: app.Run is
\* called, loads and merges the configuration, computes its checksum, logs
\* the start of the process and a new checksum, and reaches gatherFacts
RunStart ==
    /\ pc = "idle"
    /\ file.Error = "OK"
    /\ ~calculateHashPanics(failing)
    /\ pc' = "facts"
    /\ ai' = 1
    /\ ri' = 1
    /\ gatheredFacts' = NoFacts
    /\ environment' = EmptyEnvironment
    /\ calls' = <<>>
    /\ LET merged == CalculateHash(mergeConfiguration(LoadConfigFile(file),
                                                      overwrite(mode, flags)))
       IN /\ config' = merged
          /\ fi' = firstFact(merged.Facts,
                           configurationChanged(merged.Hash, configurationHash))
          /\ log' = startingEvents(applicationStarted)
                     \o (IF configurationChanged(merged.Hash, configurationHash)
                         THEN logConfigurationChanged(merged) ELSE <<>>)
          /\ configurationHash' = storeHash(merged.Hash, configurationHash)
          /\ loggers' = LogInit(merged.Logging)
    /\ applicationStarted' = TRUE
    /\ runDuration' = NoDuration
    /\ wait' = NoWait
    /\ UNCHANGED <<mode, failing, before, flags, file, exitStatus, sub, inflight>>

\* a FatalError that returns: LoadConfigFile gives Config{} and Run goes on
LoadFatalGoesOn ==
    /\ pc = "idle"
    /\ file.Error # "OK"
    /\ pc' = "facts"
    /\ LET merged == CalculateHash(mergeConfiguration(ZeroConfig, overwrite(mode, flags)))
       IN /\ config' = merged
          /\ configurationHash' = storeHash(merged.Hash, configurationHash)
          /\ loggers' = LogInit(merged.Logging)
    /\ log' = <<logFatalError(file.Error)>>
    /\ applicationStarted' = TRUE
    /\ UNCHANGED <<mode, failing, before, flags, file, runDuration, wait, exitStatus, sub, inflight,
                   fi, ai, ri, gatheredFacts, environment, calls>>

\* Run: LoadConfigFile cannot read, parse or validate the file; FatalError
\* logs the error and exits the process
LoadFatal ==
    /\ pc = "idle"
    /\ file.Error # "OK"
    /\ pc' = "terminated"
    /\ log' = <<logFatalError(file.Error)>>
    /\ exitStatus' = returnCode(file.Error)
    /\ UNCHANGED <<mode, failing, before, flags, file, configurationHash, runDuration, wait, loggers,
                   applicationStarted, config, sub, inflight, fi, ai, ri, gatheredFacts,
                   environment, calls>>

\* gatherFacts: c := NewCommand(...); c.Execute() starts the fact's process
FactStart ==
    /\ pc = "facts"
    /\ sub = "ready"
    /\ fi <= Len(config.Facts)
    /\ Started("fact", fi, 0, factCommand(config.Facts[fi]))
    /\ UNCHANGED <<mode, loopVars, applicationStarted, config, pc, fi, ai, ri, gatheredFacts, environment, log>>

\* gatherFacts: c.Execute() returns; the fact is logged and saved
FactFinish ==
    /\ pc = "facts"
    /\ sub = "blocked"
    /\ \E p \in ProcessOutcomes :
         LET fact == config.Facts[fi]
             c == Execute(factCommand(fact), p)
         IN /\ Finished(p, c)
            /\ log' = Append(log, logFactGathered(fact, c))
            /\ gatheredFacts' = saveFact(gatheredFacts, fact, c)
            /\ fi' = nextFact(config.Facts, fi, c)
    /\ UNCHANGED <<mode, loopVars, applicationStarted, config, pc, ai, ri, environment>>

\* an executeActions whose environment is process-wide: an entry of the pass
\* before stays when this pass gives none under its name
FactsDoneCarried ==
    /\ pc = "facts"
    /\ sub = "ready"
    /\ fi > Len(config.Facts)
    /\ pc' = "actions"
    /\ environment' =
          [ n \in (DOMAIN executeActionsEnvironment(gatheredFacts)) \cup (DOMAIN before) |->
              IF n \in DOMAIN executeActionsEnvironment(gatheredFacts)
              THEN executeActionsEnvironment(gatheredFacts)[n] ELSE before[n] ]
    /\ before' = EmptyEnvironment
    /\ UNCHANGED <<mode, failing, flags, file, configurationHash, runDuration, wait, exitStatus,
                   loggers, applicationStarted, config, sub, inflight, fi, ai, ri,
                   gatheredFacts, calls, log>>

\* Run: gatherFacts returns and executeActions is entered
FactsDone ==
    /\ pc = "facts"
    /\ sub = "ready"
    /\ fi > Len(config.Facts)
    /\ pc' = "actions"
    /\ environment' = executeActionsEnvironment(gatheredFacts)
    /\ before' = EmptyEnvironment
    /\ UNCHANGED <<mode, failing, flags, file, configurationHash, runDuration, wait, exitStatus,
                   loggers, applicationStarted, config, sub, inflight, fi, ai, ri,
                   gatheredFacts, calls, log>>

\* checkActionRules: the next rule of the current action is started
RuleStart ==
    /\ pc = "actions"
    /\ sub = "ready"
    /\ ai <= Len(config.Actions)
    /\ ~rulesExhausted(config.Actions[ai], ri)
    /\ Started("rule", ai, ri, ruleCommand(config.Actions[ai].Rules[ri], environment))
    /\ UNCHANGED <<mode, loopVars, applicationStarted, config, pc, fi, ai, ri, gatheredFacts, environment, log>>

\* checkActionRules: the rule's command returns; it is logged and decides
RuleFinish ==
    /\ pc = "actions"
    /\ sub = "blocked"
    /\ ai <= Len(config.Actions)
    /\ ~rulesExhausted(config.Actions[ai], ri)
    /\ \E p \in ProcessOutcomes :
         LET rule == config.Actions[ai].Rules[ri]
             c == Execute(ruleCommand(rule, environment), p)
             next == nextRule(ai, ri, c)
         IN /\ Finished(p, c)
            /\ log' = Append(log, logRuleChecked(rule, c))
            /\ ai' = next[1]
            /\ ri' = next[2]
    /\ UNCHANGED <<mode, loopVars, applicationStarted, config, pc, fi, gatheredFacts, environment>>

\* executeActions: checkActionRules returned true; the action is started
ActionStart ==
    /\ pc = "actions"
    /\ sub = "ready"
    /\ ai <= Len(config.Actions)
    /\ rulesExhausted(config.Actions[ai], ri)
    /\ Started("action", ai, 0, actionCommand(config.Actions[ai], environment))
    /\ UNCHANGED <<mode, loopVars, applicationStarted, config, pc, fi, ai, ri, gatheredFacts, environment, log>>

\* executeActions: the action's command returns and is logged
ActionFinish ==
    /\ pc = "actions"
    /\ sub = "blocked"
    /\ ai <= Len(config.Actions)
    /\ rulesExhausted(config.Actions[ai], ri)
    /\ \E p \in ProcessOutcomes :
         LET action == config.Actions[ai]
             c == Execute(actionCommand(action, environment), p)
         IN /\ Finished(p, c)
            /\ log' = Append(log, logActionExecuted(action, c))
            /\ ai' = nextAction(config.Actions, ai, c)
            /\ ri' = 1
    /\ UNCHANGED <<mode, loopVars, applicationStarted, config, pc, fi, gatheredFacts, environment>>

\* Run returns the merged configuration to the command that called it
RunReturn ==
    /\ pc = "actions"
    /\ sub = "ready"
    /\ ai > Len(config.Actions)
    /\ pc' = "returned"
    /\ UNCHANGED <<mode, loopVars, applicationStarted, config, sub, inflight, fi, ai, ri, gatheredFacts,
                   environment, calls, log>>

\* the command that called Run goes on: the locals of Run are gone and the
\* trace of the pass is closed
PassLeft ==
    /\ fi' = 1
    /\ ai' = 1
    /\ ri' = 1
    /\ gatheredFacts' = NoFacts
    /\ environment' = EmptyEnvironment
    /\ calls' = <<>>
    /\ before' = (IF pc = "returned" THEN environment ELSE before)

\* a oneshotCmd.Run that calls app.Run again
OneshotExitAgain ==
    /\ pc = "returned"
    /\ mode = "oneshot"
    /\ pc' = "idle"
    /\ log' = <<>>
    /\ PassLeft
    /\ UNCHANGED <<mode, failing, flags, file, configurationHash, runDuration, wait, exitStatus,
                   loggers, applicationStarted, config, sub, inflight>>

\* oneshotCmd.Run returns after its single call of app.Run
OneshotExit ==
    /\ pc = "returned"
    /\ mode = "oneshot"
    /\ pc' = "terminated"
    /\ exitStatus' = returnCode("OK")
    /\ log' = <<>>
    /\ PassLeft
    /\ UNCHANGED <<mode, failing, flags, file, configurationHash, runDuration, wait, loggers,
                   applicationStarted, config, sub, inflight>>

\* daemonCmd.Run: the pass took less than the interval of the configuration
\* it returned: the sleep is logged and time.Sleep(wait) is entered
DaemonSleep ==
    /\ pc = "returned"
    /\ mode = "daemon"
    /\ \E elapsed \in RunDurations :
         LET minInterval == loopInterval(config, flags)
         IN /\ shouldSleep(elapsed, minInterval)
            /\ runDuration' = elapsed
            /\ wait' = sleepMilliseconds(elapsed, minInterval)
    /\ log' = <<logSleeping(wait')>>
    /\ pc' = "sleeping"
    /\ PassLeft
    /\ UNCHANGED <<mode, failing, flags, file, configurationHash, exitStatus, loggers,
                   applicationStarted, config, sub, inflight>>

\* a daemonCmd.Run without the for: it returns after the pass
DaemonLoopOnce ==
    /\ mode = "daemon"
    /\ pc \in {"returned", "sleeping"}
    /\ pc' = "terminated"
    /\ exitStatus' = returnCode("OK")
    /\ log' = <<>>
    /\ PassLeft
    /\ UNCHANGED <<mode, failing, flags, file, configurationHash, runDuration, wait, loggers,
                   applicationStarted, config, sub, inflight>>

\* a daemonCmd.Run that leaves the for when a pass took the interval or more
DaemonLoopBreak ==
    /\ mode = "daemon"
    /\ \/ /\ pc = "returned"
          /\ \E elapsed \in RunDurations :
               /\ ~shouldSleep(elapsed, loopInterval(config, flags))
               /\ runDuration' = elapsed
          /\ wait' = NoWait
          /\ pc' = "terminated"
          /\ exitStatus' = returnCode("OK")
       \/ /\ pc = "sleeping"
          /\ runDuration' = NoDuration
          /\ wait' = NoWait
          /\ pc' = "idle"
          /\ exitStatus' = exitStatus
    /\ log' = <<>>
    /\ PassLeft
    /\ UNCHANGED <<mode, failing, flags, file, configurationHash, loggers,
                   applicationStarted, config, sub, inflight>>

\* daemonCmd.Run: the pass took the interval or more, or the sleep is over:
\* the for loop goes round
DaemonLoop ==
    /\ mode = "daemon"
    /\ \/ /\ pc = "returned"
          /\ \E elapsed \in RunDurations :
               /\ ~shouldSleep(elapsed, loopInterval(config, flags))
               /\ runDuration' = elapsed
          /\ wait' = NoWait
       \/ /\ pc = "sleeping"
          /\ runDuration' = NoDuration
          /\ wait' = NoWait
    /\ pc' = "idle"
    /\ log' = <<>>
    /\ PassLeft
    /\ UNCHANGED <<mode, failing, flags, file, configurationHash, exitStatus, loggers,
                   applicationStarted, config, sub, inflight>>

\* the configuration file is edited, damaged or repaired between two passes
\* of the daemon
ConfigFileChanged ==
    /\ pc = "idle"
    /\ applicationStarted
    /\ file' \in DaemonFiles \ {file}
    /\ UNCHANGED <<mode, failing, before, flags, configurationHash, runDuration, wait, exitStatus,
                   loggers, applicationStarted, config, pc, sub, inflight, fi, ai, ri,
                   gatheredFacts, environment, calls, log>>

\* Run: CalculateHash panics on the merged configuration; nothing recovers,
\* and the Go runtime ends the process with status 2 before LogInit is
\* reached
HashPanic ==
    /\ pc = "idle"
    /\ file.Error = "OK"
    /\ calculateHashPanics(failing)
    /\ pc' = "terminated"
    /\ exitStatus' = 2
    /\ log' = <<>>
    /\ UNCHANGED <<mode, failing, before, flags, file, configurationHash, runDuration,
                   wait, loggers, applicationStarted, config, sub, inflight, fi, ai, ri,
                   gatheredFacts, environment, calls>>

\* between two passes mockJSONMarshal or mockAdler32Hash is replaced by a
\* function that returns an error, as the tests of CalculateHash do
MockReplaced ==
    /\ pc = "idle"
    /\ failing = NoMock
    /\ failing' \in Mocks
    /\ UNCHANGED <<mode, before, flags, file, configurationHash, runDuration, wait,
                   exitStatus, loggers, applicationStarted, config, pc, sub, inflight, fi,
                   ai, ri, gatheredFacts, environment, calls, log>>

Next ==
    \/ RunStart
    \/ FactStart
    \/ FactFinish
    \/ FactsDone
    \/ RuleStart
    \/ RuleFinish
    \/ ActionStart
    \/ ActionFinish
    \/ RunReturn
    \/ OneshotExit
    \/ DaemonSleep
    \/ DaemonLoop

Spec == Init /\ [][Next]_vars

\* the scheduling loop: any flags, a file that changes between the passes
\* and may fail to load
InitDaemon ==
    /\ mode \in Modes
    /\ flags \in DaemonFlags
    /\ file \in DaemonFiles
    /\ Boot

NextDaemon ==
    \/ Next
    \/ LoadFatal
    \/ ConfigFileChanged

SpecDaemon == InitDaemon /\ [][NextDaemon]_vars

\* the scheduling loop with the mocks of the tests: no flag is given, the
\* file changes between the passes, and the serialization or the checksum
\* may start to fail
InitMock ==
    /\ mode \in Modes
    /\ flags = NoFlags
    /\ file \in DaemonFiles
    /\ Boot

NextMock ==
    \/ NextDaemon
    \/ MockReplaced
    \/ HashPanic

SpecMock == InitMock /\ [][NextMock]_vars

\* ------------------------------------------- the methods of Config, called
\* directly as the tests of the package call them: c.Merge(m), then
\* c.CalculateHash(), then c.CalculateHash() again; c is config and m is the
\* Config of file or that of the command line
HashSamples == {ZeroHash, <<0, 1>>, <<28823, 28852>>}

ValidFiles == { f \in DaemonFiles : f.Error = "OK" }

ConfigSamples ==
    { [mergeConfiguration(LoadConfigFile(f), overwrite(m, fl)) EXCEPT !.Hash = h] :
        f \in ValidFiles, m \in Modes, fl \in DaemonFlags, h \in HashSamples }

InitConfig ==
    /\ mode = "oneshot"
    /\ flags = NoFlags
    /\ file \in ValidFiles
    /\ config \in ConfigSamples
    /\ applicationStarted = FALSE
    /\ configurationHash = ZeroHash
    /\ runDuration = NoDuration
    /\ wait = NoWait
    /\ exitStatus = NoExit
    /\ loggers = NoLoggers
    /\ before = EmptyEnvironment
    /\ failing = NoMock
    /\ pc = "config"
    /\ sub = "ready"
    /\ inflight = 0
    /\ fi = 1
    /\ ai = 1
    /\ ri = 1
    /\ gatheredFacts = NoFacts
    /\ environment = EmptyEnvironment
    /\ calls = <<>>
    /\ log = <<>>

\* history: a method of Config is called on the receiver c
Called(method, c) ==
    calls' = Append(calls, [kind |-> method, idx |-> 0, rule |-> 0, done |-> TRUE,
                            proc |-> NoProcess, cmd |-> c])

\* history: a method of Config is called on the receiver c with the
\* argument m
CalledWith(method, c, m) ==
    calls' = calls \o << [kind |-> method, idx |-> 0, rule |-> 0, done |-> TRUE,
                          proc |-> NoProcess, cmd |-> c],
                         [kind |-> "argument", idx |-> 0, rule |-> 0, done |-> TRUE,
                          proc |-> NoProcess, cmd |-> m] >>

\* the configurations Run merges into its own: that of the file, and that
\* of the command line, which has no facts and no actions
MergeArguments == {LoadConfigFile(file), overwrite(mode, flags)}

\* c.Merge(m)
MergeCall ==
    /\ pc = "config"
    /\ pc' = "merged"
    /\ \E m \in MergeArguments :
         /\ config' = Merge(config, m)
         /\ CalledWith("Merge", config, m)
    /\ UNCHANGED <<mode, loopVars, applicationStarted, sub, inflight, fi, ai, ri,
                   gatheredFacts, environment, log>>

\* c.CalculateHash(), a first and a second time
CalculateHashCall ==
    /\ pc \in {"config", "merged", "hashed"}
    /\ ~calculateHashPanics(failing)
    /\ pc' = (IF pc = "hashed" THEN "rehashed" ELSE "hashed")
    /\ config' = CalculateHash(config)
    /\ Called("CalculateHash", config)
    /\ UNCHANGED <<mode, loopVars, applicationStarted, sub, inflight, fi, ai, ri,
                   gatheredFacts, environment, log>>

\* the names FatalError is called with: those of the table, the LogError of
\* Log, the empty name and a name that does not exist
ErrorNames ==
    {"", "UnexistingError", "OK", "Unknown", "IOError", "ParseError", "ValidationError",
     "OSError", "LogError"}

\* FatalError(name, error): the error is logged and the process exits
FatalErrorCall ==
    /\ pc = "config"
    /\ pc' = "terminated"
    /\ \E name \in ErrorNames :
         /\ log' = <<logFatalError(name)>>
         /\ exitStatus' = returnCode(name)
    /\ UNCHANGED <<mode, failing, before, flags, file, configurationHash, runDuration, wait, loggers,
                   applicationStarted, config, sub, inflight, fi, ai, ri, gatheredFacts,
                   environment, calls>>

NextConfig ==
    \/ MergeCall
    \/ CalculateHashCall
    \/ FatalErrorCall

SpecConfig == InitConfig /\ [][NextConfig]_vars

TypeOK ==
    /\ mode \in Modes
    /\ pc \in {"idle", "facts", "actions", "returned", "sleeping", "terminated",
              "config", "merged", "hashed", "rehashed"}
    /\ sub \in {"ready", "blocked"}
    /\ inflight \in 0..1
    /\ fi \in 1..(Len(config.Facts) + 1)
    /\ ai \in 1..(Len(config.Actions) + 1)
    /\ config.Hash \in (0..65520) \X (0..65520)
    /\ runDuration \in RunDurations \cup {NoDuration}
    /\ wait >= NoWait
    /\ exitStatus \in {NoExit, 0, 1, 2, 64, 65, 66, 67}
    /\ failing \in Mocks \cup {NoMock}
    /\ DOMAIN loggers \subseteq {"stdout", "stderr", "file"}

\* ------------------------------------------------------- reading the trace
Calls(kind) == { i \in DOMAIN calls : calls[i].kind = kind }

RuleCalls(a, r) == { i \in Calls("rule") : calls[i].idx = a /\ calls[i].rule = r }

ActionCalls(a) == { i \in Calls("action") : calls[i].idx = a }

FactCalls(f) == { i \in Calls("fact") : calls[i].idx = f }

Events(msg, command) ==
    { i \in DOMAIN log : log[i].msg = msg /\ log[i].command = command }

IsCommandEvent(e) == e.msg \in {"fact gathered", "rule checked", "action executed"}

\* the events of the pass that report a command, in order
CommandLog == SelectSeq(log, IsCommandEvent)

\* rule r of action a was run and exited with a non-zero code
RuleFailed(a, r) == \E i \in RuleCalls(a, r) : calls[i].done /\ calls[i].cmd.Rc # 0

\* rule r of action a was run and exited with code 0
RulePassed(a, r) == \E i \in RuleCalls(a, r) : calls[i].done /\ calls[i].cmd.Rc = 0

ActionIndexes == 1..Len(config.Actions)

RuleIndexes(a) == 1..Len(config.Actions[a].Rules)

\* ------------------------------------------------------------------ claims
\* C1: checkActionRules runs the rules of an action in list order and stops
\* at the first rule whose exit code is non-zero: a rule is run only after
\* all the rules before it were run and exited 0, no rule after a failing
\* rule is run or logged as "rule checked", and the command of that action
\* is not executed in the pass.
C1_RuleShortCircuit ==
    \A a \in ActionIndexes : \A r \in RuleIndexes(a) :
        /\ Cardinality(RuleCalls(a, r)) <= 1
        /\ \A i \in RuleCalls(a, r) : \A q \in 1..(r - 1) :
               \E j \in RuleCalls(a, q) : j < i /\ calls[j].done /\ calls[j].cmd.Rc = 0
        /\ RuleFailed(a, r) =>
               /\ \A q \in RuleIndexes(a) : q > r =>
                      /\ RuleCalls(a, q) = {}
                      /\ Events("rule checked", config.Actions[a].Rules[q]) = {}
               /\ ActionCalls(a) = {}
               /\ Events("action executed", config.Actions[a].Command) = {}

\* C1 witness: a pass has returned in which the first of two rules failed
C1_Witness ==
    /\ pc = "returned"
    /\ \E a \in ActionIndexes : Len(config.Actions[a].Rules) >= 2 /\ RuleFailed(a, 1)

\* C2: in a pass the command of an action is executed exactly once if its
\* rule list is empty or every one of its rules exited with code 0, and not
\* at all otherwise, whatever the facts returned; an "action executed" event
\* is emitted exactly when the command was executed.
C2_ActionGate ==
    \A a \in ActionIndexes :
        LET allPassed == \A r \in RuleIndexes(a) : RulePassed(a, r)
            executed == { i \in ActionCalls(a) : calls[i].done }
        IN /\ Cardinality(ActionCalls(a)) <= 1
           /\ ActionCalls(a) # {} => allPassed
           /\ a < ai => (allPassed <=> Cardinality(executed) = 1)
           /\ Cardinality(Events("action executed", config.Actions[a].Command))
                 = Cardinality(executed)

\* C2 witness: a pass has returned that executed an action without rules
\* after failed facts, executed an action whose rules passed or skipped one
C2_Witness ==
    /\ pc = "returned"
    /\ \E a \in ActionIndexes :
          /\ config.Actions[a].Rules # <<>>
          /\ \A r \in RuleIndexes(a) : RulePassed(a, r)
          /\ ActionCalls(a) # {}
    /\ \E a \in ActionIndexes : \E r \in RuleIndexes(a) : RuleFailed(a, r)

\* C3: the environment built by toEnvironment has an entry for a fact name
\* exactly when the result of that fact has exit code 0 and a non-empty
\* stdout, and the value of the entry is that stdout; no entry is empty.
C3_DerivedEnvironment ==
    LET env == toEnvironment(gatheredFacts)
    IN /\ DOMAIN env \subseteq DOMAIN gatheredFacts
       /\ \A n \in DOMAIN gatheredFacts :
             /\ n \in DOMAIN env <=>
                   (gatheredFacts[n].Result.Rc = 0 /\ gatheredFacts[n].Result.Stdout # <<>>)
             /\ n \in DOMAIN env => env[n] = gatheredFacts[n].Result.Stdout
       /\ \A n \in DOMAIN env : env[n] # <<>>

\* C3 witness: executeActions was entered with one fact that has an entry and
\* another that printed something but exited with a non-zero code
C3_Witness ==
    /\ pc = "actions"
    /\ \E n, m \in DOMAIN gatheredFacts :
          /\ n \in DOMAIN toEnvironment(gatheredFacts)
          /\ gatheredFacts[m].Result.Rc # 0
          /\ gatheredFacts[m].Result.Stdout # <<>>

\* the facts of the list that are called name
FactsNamed(name) == { f \in 1..Len(config.Facts) : config.Facts[f].Name = name }

Max(S) == CHOOSE x \in S : \A y \in S : y <= x

\* C4 as stated: when gatherFacts has returned, what it returns holds one
\* result for every fact of the list, shared names included.
C4_OneResultPerFact ==
    pc = "actions" =>
        /\ Cardinality(DOMAIN gatheredFacts) = Len(config.Facts)
        /\ \A f \in 1..Len(config.Facts) :
              \E n \in DOMAIN gatheredFacts :
                  gatheredFacts[n].Command = config.Facts[f].Command

\* C4 amended: gatherFacts runs one command per fact of the list, in input
\* order and whatever the earlier commands did, and logs one "fact gathered"
\* event for each; the map it returns holds one populated fact per distinct
\* name, the last fact of that name in the list.
C4_OneRunPerFact ==
    /\ \A f \in 1..Len(config.Facts) :
          /\ Cardinality(FactCalls(f)) = (IF f < fi \/ (f = fi /\ sub = "blocked") THEN 1 ELSE 0)
          /\ \A i \in FactCalls(f) :
                /\ i = f
                /\ calls[i].cmd.Command = config.Facts[f].Command
                /\ f < fi =>
                      /\ calls[i].done
                      /\ CommandLog[i].msg = "fact gathered"
                      /\ CommandLog[i].name = config.Facts[f].Name
                      /\ CommandLog[i].command = config.Facts[f].Command
                      /\ CommandLog[i].rc = calls[i].cmd.Rc
                      /\ CommandLog[i].stdout = calls[i].cmd.Stdout
    /\ Cardinality({ i \in DOMAIN CommandLog : CommandLog[i].msg = "fact gathered" }) = fi - 1
    /\ pc = "actions" =>
          /\ Cardinality(Calls("fact")) = Len(config.Facts)
          /\ DOMAIN gatheredFacts = { config.Facts[f].Name : f \in 1..Len(config.Facts) }
          /\ \A n \in DOMAIN gatheredFacts :
                LET last == Max(FactsNamed(n))
                IN /\ gatheredFacts[n].Command = config.Facts[last].Command
                   /\ gatheredFacts[n].Result = calls[last].cmd

\* C4 witness: gatherFacts has returned from a list of two facts of one name
\* of which the first failed
C4_Witness ==
    /\ pc = "actions"
    /\ Len(config.Facts) = 2
    /\ config.Facts[1].Name = config.Facts[2].Name
    /\ calls[1].cmd.Error # NoError
    /\ calls[2].cmd.Error = NoError

\* the severity the specification gives to a command result
Severity(error, stderr) ==
    CASE error # NoError -> "error"
      [] stderr # <<>>   -> "warn"
      [] OTHER           -> "debug"

\* C5: the level of every "fact gathered" and every "action executed" event
\* is decided by the result of the command alone, the same way for both:
\* error when the error is set, else warn when stderr is not empty, else debug.
C5_Severity ==
    /\ Len(CommandLog) = Cardinality({ i \in DOMAIN calls : calls[i].done })
    /\ \A i \in DOMAIN CommandLog :
          CommandLog[i].msg \in {"fact gathered", "action executed"} =>
              /\ CommandLog[i].msg = (IF calls[i].kind = "fact" THEN "fact gathered" ELSE "action executed")
              /\ CommandLog[i].error = calls[i].cmd.Error
              /\ CommandLog[i].stderr = calls[i].cmd.Stderr
              /\ CommandLog[i].level = Severity(calls[i].cmd.Error, calls[i].cmd.Stderr)

\* C5 witness: a fact was logged at warn and an action that wrote to stderr
\* and failed was logged at error
C5_Witness ==
    /\ \E i \in DOMAIN log : log[i].msg = "fact gathered" /\ log[i].level = "warn"
    /\ \E i \in DOMAIN log :
          /\ log[i].msg = "action executed"
          /\ log[i].level = "error"
          /\ log[i].stderr # <<>>
    /\ \E i \in DOMAIN log : log[i].msg = "action executed" /\ log[i].level = "debug"

\* C6 as stated: a command that ran to completion with a non-zero exit code
\* is recorded with that code and without an error.
C6_NoErrorOnNonZeroExit ==
    \A i \in DOMAIN calls :
        (calls[i].done /\ calls[i].proc.kind = "exited" /\ calls[i].proc.code # 0) =>
            /\ calls[i].cmd.Rc = calls[i].proc.code
            /\ calls[i].cmd.Error = NoError

\* C6 amended: a command that ran to completion with a non-zero exit code is
\* recorded with that code and with the error set; the error is also set
\* when the process could not be started or was killed on timeout.
C6_ErrorOnNonZeroExit ==
    \A i \in DOMAIN calls :
        calls[i].done =>
            /\ calls[i].proc.kind = "exited" => calls[i].cmd.Rc = calls[i].proc.code
            /\ (calls[i].proc.kind # "exited" \/ calls[i].proc.code # 0) =>
                  calls[i].cmd.Error # NoError

\* C6 witness: a command exited with code 1
C6_Witness ==
    \E i \in DOMAIN calls :
        calls[i].done /\ calls[i].proc.kind = "exited" /\ calls[i].proc.code = 1

\* the calls of executeActions: rule and action commands
EvaluationCalls == Calls("rule") \cup Calls("action")

\* call i comes before call j in the order of the configuration: an earlier
\* action, or the same action and an earlier rule, or a rule and the command
InListOrder(i, j) ==
    \/ calls[i].idx < calls[j].idx
    \/ /\ calls[i].idx = calls[j].idx
       /\ calls[i].kind = "rule"
       /\ calls[j].kind = "action" \/ calls[i].rule < calls[j].rule

\* C7: within a pass actions are processed in list order and without
\* interleaving: of two commands of executeActions the one started first
\* has completed before the other starts and comes first in the order of the
\* configuration, and the command of an action starts only after all the
\* rules of that action have completed.
C7_ActionsInOrder ==
    /\ \A i, j \in EvaluationCalls : i < j => (calls[i].done /\ InListOrder(i, j))
    /\ \A i \in Calls("action") : \A r \in RuleIndexes(calls[i].idx) :
          \E j \in RuleCalls(calls[i].idx, r) : j < i /\ calls[j].done

\* C7 witness: a pass has returned that executed two actions with rules
C7_Witness ==
    /\ pc = "returned"
    /\ Len(config.Actions) = 2
    /\ \A a \in ActionIndexes :
          /\ config.Actions[a].Rules # <<>>
          /\ \E i \in ActionCalls(a) : calls[i].done

\* the fact calls of the pass made for a fact called name
FactCallsNamed(name) == { i \in Calls("fact") : config.Facts[calls[i].idx].Name = name }

\* the environment the fact results of the pass give: the stdout of the last
\* fact run under each name, when it exited with code 0 and printed something
DerivedEnvironment ==
    [ n \in { m \in FactNames :
                /\ FactCallsNamed(m) # {}
                /\ calls[Max(FactCallsNamed(m))].cmd.Rc = 0
                /\ calls[Max(FactCallsNamed(m))].cmd.Stdout # <<>> }
        |-> calls[Max(FactCallsNamed(n))].cmd.Stdout ]

Evaluated(a) ==
    IF config.Actions[a].Rules = <<>>
      THEN \E i \in ActionCalls(a) : calls[i].done
      ELSE \E i \in RuleCalls(a, 1) : calls[i].done

PassOver == pc = "returned"

\* C9: no outcome of a fact or of an action stops the pass: every fact
\* before the one being gathered was run, every action before the one being
\* processed was evaluated, gatherFacts returns only when every fact of the
\* list was run and Run returns only when every action was evaluated.
C9_PassNotStopped ==
    /\ \A f \in 1..Len(config.Facts) :
          (f < fi \/ pc = "actions" \/ PassOver) => \E i \in FactCalls(f) : calls[i].done
    /\ \A a \in ActionIndexes :
          (a < ai \/ PassOver) => Evaluated(a)

\* C9 witness: a pass is over in which the first fact and the first action
\* failed and the second fact and the second action were still run
C9_Witness ==
    /\ PassOver
    /\ Len(config.Facts) = 2
    /\ Len(config.Actions) = 2
    /\ \E i \in FactCalls(1) : calls[i].cmd.Error # NoError
    /\ \E i \in ActionCalls(1) : calls[i].cmd.Error # NoError
    /\ Evaluated(2)

\* C10: at most one command is running at any moment: a command is started
\* only when every command started before it has finished, and a pass
\* starts and returns only when no command is running.
C10_OneCommandAtATime ==
    /\ inflight <= 1
    /\ inflight = Cardinality({ i \in DOMAIN calls : ~calls[i].done })
    /\ \A i \in DOMAIN calls : i < Len(calls) => calls[i].done
    /\ pc \notin {"facts", "actions"} => inflight = 0

\* C10 witness: in a later pass of the daemon a command is running after
\* another command of the pass has finished
C10_Witness ==
    /\ mode = "daemon"
    /\ applicationStarted
    /\ Events("starting", <<>>) = {}
    /\ inflight = 1
    /\ Len(calls) >= 2
\* ------------------------------------------------------------------ C11
\* the fields of a Config other than Hash
Substance(c) == [Daemon |-> c.Daemon, Logging |-> c.Logging, Facts |-> c.Facts,
                 Actions |-> c.Actions]

\* C11: CalculateHash does not depend on the value Hash holds when it is
\* called: whatever Hash the configuration held, the checksum a call stores
\* is the checksum stored for every configuration equal to it in the other
\* fields, and a second call on the unchanged configuration stores the same
\* checksum again and changes no other field.
C11_HashIgnoresHash ==
    [][ (pc' \in {"hashed", "rehashed"} /\ pc # pc') =>
          /\ Substance(config') = Substance(config)
          /\ \A h \in HashSamples \cup {config'.Hash} :
                CalculateHash([config EXCEPT !.Hash = h]).Hash = config'.Hash
          /\ pc' = "rehashed" => config' = config ]_vars

\* C11 witness: a configuration with facts that held a checksum other than
\* zero and other than its own has been hashed, and hashed again
C11_Witness ==
    /\ pc = "rehashed"
    /\ Len(config.Facts) > 0
    /\ \E i \in Calls("CalculateHash") :
         /\ i < Len(calls)
         /\ calls[i].cmd.Hash \notin {ZeroHash, config.Hash}
         /\ calls[Len(calls)].cmd.Hash = config.Hash

\* ------------------------------------------------------------------ C12
\* a pass after the first begins: config still holds the merged
\* configuration of the pass before, config' that of this pass
LaterPassBegins == pc = "idle" /\ pc' = "facts" /\ applicationStarted

\* the bytes CalculateHash sums
Canonical(c) == jsonMarshal([c EXCEPT !.Hash = ZeroHash])

\* C12 as claimed: the checksum changes if and only if a field other than
\* Hash changes: two merged configurations that differ in such a field always
\* get different checksums.
C12_ChecksumIffChanged ==
    [][ LaterPassBegins =>
          (config'.Hash # config.Hash <=> Substance(config') # Substance(config)) ]_vars

\* C12 amended: the checksum changes only if a field other than Hash changes,
\* and two merged configurations that differ in such a field always have
\* different canonical bytes (their Adler-32 sums may still be equal).
C12_ChecksumOnlyIfChanged ==
    [][ LaterPassBegins =>
          /\ config'.Hash # config.Hash => Substance(config') # Substance(config)
          /\ Substance(config') # Substance(config) => Canonical(config') # Canonical(config)
          /\ Canonical(config') = Canonical(config) => config'.Hash = config.Hash ]_vars

\* C12 witness: a later pass of the daemon has merged a configuration with a
\* fact whose checksum is not the one stored before, and reports it
C12_Witness ==
    /\ pc = "facts"
    /\ calls = <<>>
    /\ Len(config.Facts) > 0
    /\ Events("starting", <<>>) = {}
    /\ Events("configuration loaded", <<>>) # {}
    /\ configurationHash = config.Hash

\* ------------------------------------------------------------------ C13
\* the events of l with the message msg
Reports(l, msg) == { i \in DOMAIN l : l[i].msg = msg }

InPass(p) == p \in {"facts", "actions", "returned"}

\* C13: in every pass the "configuration hash" and "configuration loaded"
\* events are emitted (once each, the hash first) if and only if the checksum
\* computed in the pass differs from the checksum stored when the pass began;
\* after the comparison, and to the end of the pass, the stored checksum is
\* the checksum of the merged configuration of the pass.
C13_ReportIffChecksumNew ==
    [][ IF pc = "idle" /\ pc' = "facts"
        THEN /\ configurationHash' = config'.Hash
             /\ IF config'.Hash # configurationHash
                THEN \E i \in DOMAIN log' :
                       /\ Reports(log', "configuration hash") = {i}
                       /\ Reports(log', "configuration loaded") = {i + 1}
                       /\ log'[i].hash = config'.Hash
                       /\ log'[i + 1].facts = Len(config'.Facts)
                       /\ log'[i + 1].actions = Len(config'.Actions)
                ELSE /\ Reports(log', "configuration hash") = {}
                     /\ Reports(log', "configuration loaded") = {}
        ELSE InPass(pc') =>
               /\ configurationHash' = configurationHash
               /\ configurationHash' = config'.Hash
               /\ Reports(log', "configuration hash") = Reports(log, "configuration hash")
               /\ Reports(log', "configuration loaded") = Reports(log, "configuration loaded")
      ]_vars

\* C13 witness: a later pass of the daemon found the stored checksum equal to
\* its own, reported nothing, and has run its commands
C13_Witness ==
    /\ pc = "returned"
    /\ mode = "daemon"
    /\ Len(calls) >= 3
    /\ Events("starting", <<>>) = {}
    /\ Reports(log, "configuration hash") = {}
    /\ Reports(log, "configuration loaded") = {}
    /\ configurationHash = config.Hash

\* ------------------------------------------------------------------ C14
\* the place of a call in the configuration: its kind and indexes
Place(i) == <<calls[i].kind, calls[i].idx, calls[i].rule>>

NoCall == <<"none", 0, 0>>

\* the first command action a asks for: its first rule, or the action's own
\* command when it has no rule; nothing past the last action
FirstEvaluation(a) ==
    IF a > Len(config.Actions) THEN NoCall
    ELSE IF Len(config.Actions[a].Rules) > 0 THEN <<"rule", a, 1>>
    ELSE <<"action", a, 0>>

\* the command the configuration and the outcome of call i ask for after
\* call i (after nothing, when i = 0)
CallAfter(i) ==
    IF i = 0
    THEN (IF Len(config.Facts) > 0 THEN <<"fact", 1, 0>> ELSE FirstEvaluation(1))
    ELSE LET c == calls[i]
         IN CASE c.kind = "fact" ->
                   IF c.idx < Len(config.Facts) THEN <<"fact", c.idx + 1, 0>>
                   ELSE FirstEvaluation(1)
              [] c.kind = "rule" ->
                   IF c.cmd.Rc # 0 THEN FirstEvaluation(c.idx + 1)
                   ELSE IF c.rule < Len(config.Actions[c.idx].Rules)
                        THEN <<"rule", c.idx, c.rule + 1>>
                        ELSE <<"action", c.idx, 0>>
              [] OTHER -> FirstEvaluation(c.idx + 1)

\* the command call i hands to Execute
CommandGiven(i) ==
    LET c == calls[i]
    IN CASE c.kind = "fact" -> factCommand(config.Facts[c.idx])
         [] c.kind = "rule" ->
              ruleCommand(config.Actions[c.idx].Rules[c.rule], DerivedEnvironment)
         [] OTHER -> actionCommand(config.Actions[c.idx], DerivedEnvironment)

\* the event that reports the finished call i
EventOf(i) ==
    LET c == calls[i]
    IN CASE c.kind = "fact" -> logFactGathered(config.Facts[c.idx], c.cmd)
         [] c.kind = "rule" -> logRuleChecked(config.Actions[c.idx].Rules[c.rule], c.cmd)
         [] OTHER -> logActionExecuted(config.Actions[c.idx], c.cmd)

DoneCalls == { i \in DOMAIN calls : calls[i].done }

\* C14: the change detector affects logging only: in every pass, whatever
\* checksum was stored when it began and whether or not it reported a change,
\* the commands run, their order, their environments and the "fact
\* gathered", "rule checked" and "action executed" events are the ones the
\* merged configuration and the outcomes of the commands determine, and the
\* pass returns only when nothing is left to run.
C14_DetectorOnlyLogs ==
    InPass(pc) =>
        /\ \A i \in DOMAIN calls :
              /\ Place(i) = CallAfter(i - 1)
              /\ i > 1 => calls[i - 1].done
              /\ calls[i].cmd = (IF calls[i].done THEN Execute(CommandGiven(i), calls[i].proc)
                                 ELSE CommandGiven(i))
        /\ Len(CommandLog) = Cardinality(DoneCalls)
        /\ \A i \in DoneCalls : CommandLog[i] = EventOf(i)
        /\ pc = "returned" => DoneCalls = DOMAIN calls /\ CallAfter(Len(calls)) = NoCall

\* C14 witness: a later pass of the daemon that reported no change has run a
\* fact, a rule with the fact in its environment, and the action
C14_Witness ==
    /\ pc = "returned"
    /\ Events("starting", <<>>) = {}
    /\ Reports(log, "configuration loaded") = {}
    /\ Len(calls) = 3
    /\ calls[3].kind = "action"
    /\ calls[3].cmd.Environment # EmptyEnvironment

\* ------------------------------------------------------------------ C15
\* C15: one-shot mode executes exactly one pass and returns: app.Run is
\* entered once, when nothing has run yet; it loads and merges the
\* configuration, computes and reports the checksum, then gathers the facts,
\* then evaluates the actions, and when it returns the command ends with
\* status 0; no second pass starts and the command never sleeps.
C15_OneshotOnePass ==
    [][ mode = "oneshot" =>
          /\ pc # pc' =>
                \/ pc = "idle" /\ pc' = "facts" /\ ~applicationStarted /\ applicationStarted'
                \/ pc = "idle" /\ pc' = "terminated" /\ file.Error # "OK"
                \/ pc = "facts" /\ pc' = "actions"
                \/ pc = "actions" /\ pc' = "returned"
                \/ pc = "returned" /\ pc' = "terminated" /\ exitStatus' = 0
          /\ pc' # "sleeping" /\ wait' = NoWait
          /\ InPass(pc') =>
                /\ config' = CalculateHash(mergeConfiguration(LoadConfigFile(file),
                                                              oneshotOverwrite(flags)))
                /\ configurationHash' = config'.Hash
                /\ Len(log') >= 4
                /\ log'[1].msg = "starting"
                /\ log'[2].msg = "configuration hash"
                /\ log'[3].msg = "configuration loaded"
                /\ log'[4].msg = "configuration dump"
                /\ \A i \in 5..Len(log') : IsCommandEvent(log'[i])
                /\ \A i, j \in DOMAIN calls' :
                      calls'[i].kind = "fact" /\ calls'[j].kind # "fact" => i < j
                /\ pc' = "facts" => Calls("rule") \cup Calls("action") = {}
      ]_vars

\* C15 witness: the single pass of a one-shot run has loaded a file with a
\* fact, run the fact, the rule and the action, and returned
C15_Witness ==
    /\ mode = "oneshot"
    /\ pc = "returned"
    /\ Len(calls) = 3
    /\ Len(log) = 7
    /\ calls[1].kind = "fact"
    /\ calls[3].kind = "action"

\* ------------------------------------------------------------------ C16
\* the interval of the pass that has just returned, in nanoseconds
PassInterval == ParseDuration(config.Daemon.Interval)

\* C16 as claimed: after a pass that took less than the interval the loop
\* sleeps for exactly the interval minus the elapsed time.
C16_SleepsExactRemainder ==
    pc = "sleeping" => wait * 1000000 = PassInterval - runDuration

\* C16 amended: after every pass that took less than the interval, and only
\* then, the loop sleeps, for the whole milliseconds of the interval minus
\* the whole milliseconds of the elapsed time: never less than zero, less
\* than one millisecond short of the interval minus the elapsed time, and not
\* short of it at all when the interval is a whole number of milliseconds.
C16_SleepsRemainderInMilliseconds ==
    /\ pc = "sleeping" =>
          /\ runDuration \in RunDurations
          /\ runDuration < PassInterval
          /\ wait = (PassInterval \div 1000000) - (runDuration \div 1000000)
          /\ wait >= 0
          /\ (wait + 1) * 1000000 > PassInterval - runDuration
          /\ PassInterval % 1000000 = 0 => runDuration + wait * 1000000 >= PassInterval
    /\ pc = "idle" /\ runDuration # NoDuration => runDuration >= PassInterval /\ wait = NoWait

\* C16 witness: a pass of 1.2 ms under the default interval of 2 s is followed
\* by a sleep of 1999 ms
C16_Witness ==
    /\ pc = "sleeping"
    /\ config.Daemon.Interval = "2s"
    /\ runDuration = 1200000
    /\ wait = 1999

\* ------------------------------------------------------------------ C17
\* C17: the daemon never sleeps a negative duration: it sleeps only after a
\* pass that took less than the interval, so never under an interval of zero
\* or less; after a pass that took the interval or more the next pass begins
\* with no sleep; and the loop takes over from a pass only when Run has
\* returned, every command of the pass finished.
C17_NoNegativeSleep ==
    [][ mode = "daemon" =>
          /\ pc' = "sleeping" =>
                /\ wait' >= 0
                /\ runDuration' < ParseDuration(config'.Daemon.Interval)
                /\ ParseDuration(config'.Daemon.Interval) > 0
                /\ log' = <<logSleeping(wait')>>
          /\ pc' # "sleeping" => wait' = NoWait
          /\ pc = "returned" /\ pc' = "idle" =>
                /\ runDuration' >= ParseDuration(config.Daemon.Interval)
                /\ log' = <<>>
          /\ InPass(pc) /\ ~InPass(pc') =>
                /\ pc = "returned"
                /\ inflight = 0
                /\ DoneCalls = DOMAIN calls
                /\ CallAfter(Len(calls)) = NoCall
      ]_vars

\* C17 witness: under an interval below zero a pass that took no time at all
\* is followed by the next pass at once
C17_Witness ==
    /\ mode = "daemon"
    /\ pc = "idle"
    /\ config.Daemon.Interval = "-1s"
    /\ runDuration = 0
    /\ wait = NoWait

\* ------------------------------------------------------------------ C18
\* the interval in force in a pass of the daemon that loads the file f under
\* the flags fl: that of the flag, else that of the file, else the default
EffectiveInterval(f, fl) ==
    IF fl.DaemonInterval # "" THEN fl.DaemonInterval
    ELSE IF f.Config.Daemon.Interval # "" THEN f.Config.Daemon.Interval
    ELSE RunDefaults.Daemon.Interval

\* C18: the interval is read from the merged configuration of each pass: the
\* choice between sleeping and going on at once, and the sleep, that follow a
\* pass are computed from the interval merged from the file as that pass
\* loaded it, so an interval changed in the file is in force from the pass
\* that loads it (unless the interval flag overrides the file).
C18_IntervalOfThePass ==
    [][ mode = "daemon" /\ pc = "returned" /\ pc' # pc =>
          LET interval == ParseDuration(EffectiveInterval(file, flags))
          IN /\ config.Daemon.Interval = EffectiveInterval(file, flags)
             /\ pc' = "sleeping" =>
                   /\ runDuration' < interval
                   /\ wait' = Milliseconds(interval) - Milliseconds(runDuration')
             /\ pc' = "idle" => runDuration' >= interval
      ]_vars

\* C18 witness: a later pass of the daemon has loaded a file that now sets an
\* interval of 1500 microseconds, and sleeps one millisecond
C18_Witness ==
    /\ pc = "sleeping"
    /\ flags.DaemonInterval = ""
    /\ file.Config.Daemon.Interval = "1500us"
    /\ runDuration = 0
    /\ wait = 1

\* ------------------------------------------------------------------ C19
\* the state of the scheduling loop: Idle before the first pass, Running from
\* the call of Run (and from one pass to the next), Sleeping, Terminated
LoopState(p, started) ==
    CASE p = "idle" /\ ~started -> "Idle"
      [] p = "sleeping"         -> "Sleeping"
      [] p = "terminated"       -> "Terminated"
      [] OTHER                  -> "Running"

LastSet(default, ofFile, ofArgs, empty) ==
    IF ofArgs # empty THEN ofArgs ELSE IF ofFile # empty THEN ofFile ELSE default

\* C20: the configuration of a pass is merged from the defaults, then the
\* file, then the command line, and each scalar field holds the value of the
\* last of the three that is non-empty or true: a merge never resets a field
\* to empty or false.
C20_ScalarsLastSetWins ==
    InPass(pc) =>
        LET d == RunDefaults
            f == LoadConfigFile(file)
            a == overwrite(mode, flags)
        IN /\ config.Daemon.Interval =
                 LastSet(d.Daemon.Interval, f.Daemon.Interval, a.Daemon.Interval, "")
           /\ config.Logging.File =
                 LastSet(d.Logging.File, f.Logging.File, a.Logging.File, "")
           /\ config.Logging.Level =
                 LastSet(d.Logging.Level, f.Logging.Level, a.Logging.Level, "")
           /\ config.Logging.Quiet =
                 LastSet(d.Logging.Quiet, f.Logging.Quiet, a.Logging.Quiet, FALSE)
           /\ config.Logging.JSON =
                 LastSet(d.Logging.JSON, f.Logging.JSON, a.Logging.JSON, FALSE)
           /\ config.Daemon.Interval # "" /\ config.Logging.Level # ""
           /\ f.Logging.Quiet => config.Logging.Quiet
           /\ f.Logging.JSON => config.Logging.JSON
           /\ f.Logging.File # "" => config.Logging.File # ""

\* C20 witness: a file that sets every field has been merged under flags that
\* set none: the file's interval, log file, quiet and JSON are kept, and the
\* level is the "info" the command always passes
C20_Witness ==
    /\ InPass(pc)
    /\ flags = NoFlags
    /\ file.Config.Logging.Level = "debug"
    /\ config.Daemon.Interval = "1500us"
    /\ config.Logging = [File |-> "run.log", Level |-> "info", Quiet |-> TRUE, JSON |-> TRUE]

\* ------------------------------------------------------------------ C21
\* the log holds the event of a fatal error
IsFatal(l) == l # <<>> /\ l[Len(l)].msg = "FATAL ERROR"

\* the documented exit status of an error kind
DocumentedStatus(kind) ==
    IF kind = "IOError" THEN 64
    ELSE IF kind = "ParseError" THEN 65
    ELSE IF kind = "ValidationError" THEN 66
    ELSE IF kind = "OSError" THEN 67
    ELSE IF kind = "OK" THEN 0
    ELSE 1

\* C21: a fatal error terminates the process, and nothing runs after it,
\* with an exit status that depends on the error kind alone: 64 for IOError,
\* 65 for ParseError, 66 for ValidationError, 67 for OSError, 0 for OK and 1
\* for every other name; the statuses of the three configuration error
\* kinds differ from each other.
C21_ExitStatusByKind ==
    [][ /\ pc # "terminated"
        /\ IsFatal(log') /\ ~IsFatal(log) =>
              /\ pc' = "terminated"
              /\ exitStatus' = DocumentedStatus(log'[Len(log')].kind)
              /\ log'[Len(log')].kind \in {"IOError", "ParseError", "ValidationError"} =>
                    \A other \in {"IOError", "ParseError", "ValidationError"} :
                        other # log'[Len(log')].kind => returnCode(other) # exitStatus'
      ]_vars

\* C21 witness: the process was terminated by an OSError with status 67
C21_Witness ==
    /\ pc = "terminated"
    /\ IsFatal(log)
    /\ log[Len(log)].kind = "OSError"
    /\ exitStatus = 67

\* ------------------------------------------------------------------ C22
\* the targets the event of the fatal error was written to
FatalLines == logLines(log[Len(log)].level, loggers)

\* C22: every fatal error is visible: when the process has been terminated
\* by a fatal error, one event tagged "FATAL ERROR" with the error kind was
\* logged at error level and was written to the error output or to the log
\* file, in the first pass of the process as in a later one, in one-shot
\* mode as in daemon mode.
C22_FatalErrorVisible ==
    (pc = "terminated" /\ exitStatus # 0) =>
        /\ Len(log) = 1
        /\ IsFatal(log)
        /\ log[1].level = "error"
        /\ log[1].kind = file.Error
        /\ FatalLines # <<>>

\* C22 witness: a daemon that has run a pass finds its file unreadable and
\* writes the fatal error to the error output before it exits
C22_Witness ==
    /\ pc = "terminated"
    /\ applicationStarted
    /\ IsFatal(log)
    /\ log[1].kind = "IOError"
    /\ FatalLines = <<"stderr">>

\* ------------------------------------------------------------------ C23
\* C23: the engine never runs on a configuration that failed to load: a pass
\* is entered only on a file that loads, with the configuration merged from
\* it; when the file cannot be read, parsed or validated the pass ends the
\* process at once, with the status of the error, before any fact, rule or
\* action command is run and with the stored checksum and the loggers as
\* they were; nothing happens after the process has ended, so the loop of
\* the daemon starts no later pass.
C23_NoPassOnFailedLoad ==
    [][ /\ pc # "terminated"
        /\ pc = "idle" /\ pc' # pc =>
              IF file.Error = "OK"
              THEN /\ pc' = "facts"
                   /\ Substance(config') =
                         Substance(mergeConfiguration(file.Config, overwrite(mode, flags)))
              ELSE /\ pc' = "terminated"
                   /\ exitStatus' \in {64, 65, 66}
                   /\ calls' = <<>>
                   /\ inflight' = 0
                   /\ ~\E i \in DOMAIN log' : IsCommandEvent(log'[i])
                   /\ configurationHash' = configurationHash
                   /\ config' = config
                   /\ loggers' = loggers
        /\ InPass(pc') => file.Error = "OK"
      ]_vars

\* C23 witness: a daemon that has run a pass and stored its checksum finds
\* its file invalid: it has ended with status 66 and the checksum it stored
C23_Witness ==
    /\ mode = "daemon"
    /\ pc = "terminated"
    /\ file.Error = "ValidationError"
    /\ exitStatus = 66
    /\ calls = <<>>
    /\ configurationHash = config.Hash
    /\ configurationHash # ZeroHash

\* ------------------------------------------------------------------ C24
\* the finished calls whose process was still running when the timeout
\* expired and was killed
TimedOut == { i \in DoneCalls : calls[i].proc.kind = "killed" }

ShellAskedFor(shell) == IF shell # "" THEN shell ELSE "/bin/sh"

\* C25: the shell of an action overrides the interpreter: the command of an
\* action and the rules that gate it are run with the action's shell when it
\* is not empty, and with /bin/sh only when it is empty.
C25_ActionShellOverrides ==
    \A i \in EvaluationCalls :
        calls[i].cmd.Shell = ShellAskedFor(config.Actions[calls[i].idx].Shell)

\* C25 witness: the rule and the command of an action that names a shell
\* have been run
C25_Witness ==
    /\ pc = "returned"
    /\ \E i \in Calls("rule") : \E j \in Calls("action") :
          /\ calls[i].idx = calls[j].idx
          /\ config.Actions[calls[j].idx].Shell = "/bin/bash"
          /\ calls[i].done
          /\ calls[j].done

\* ------------------------------------------------------------------ C26
\* C26: without the debug flag the log level of the file is the log level
\* of the pass: the merged configuration of a pass started on a file whose
\* logging section names a level holds that level, and the loggers of the
\* pass are set up with it.
C26_FileLevelIsEffective ==
    (InPass(pc) /\ ~flags.DebugMode /\ file.Config.Logging.Level # "") =>
        /\ config.Logging.Level = file.Config.Logging.Level
        /\ \A h \in DOMAIN loggers : loggers[h].Level = file.Config.Logging.Level

\* C26 witness: a pass runs under no flag at all on a file whose logging
\* section asks for debug, and its loggers let nothing below info through
C26_Witness ==
    /\ pc = "facts"
    /\ flags = NoFlags
    /\ file.Config.Logging.Level = "debug"
    /\ config.Logging.Level = "info"
    /\ loggers # NoLoggers
    /\ \A h \in DOMAIN loggers : loggers[h].Level = "info"

\* ------------------------------------------------------------------ C27
\* C27: a "rule checked" event is emitted for every rule that was run, one
\* for each and in the order the rules ran, with the command, exit code,
\* output and error of that run, and always at debug: also for a rule that
\* exited with a non-zero code, wrote to stderr or has an error.
C27_RuleCheckedAtDebug ==
    /\ Len(CommandLog) = Cardinality(DoneCalls)
    /\ \A i \in DoneCalls :
          /\ calls[i].kind = "rule" <=> CommandLog[i].msg = "rule checked"
          /\ calls[i].kind = "rule" =>
                /\ CommandLog[i].level = "debug"
                /\ CommandLog[i].command = config.Actions[calls[i].idx].Rules[calls[i].rule]
                /\ CommandLog[i].rc = calls[i].cmd.Rc
                /\ CommandLog[i].stdout = calls[i].cmd.Stdout
                /\ CommandLog[i].stderr = calls[i].cmd.Stderr
                /\ CommandLog[i].error = calls[i].cmd.Error
    /\ \A i \in DOMAIN log : log[i].msg = "rule checked" => log[i].level = "debug"

\* C27 witness: two rules were run and logged, the first wrote to stderr and
\* passed, the second failed with an error and stderr
C27_Witness ==
    \E i, j \in DOMAIN log :
        /\ i < j
        /\ log[i].msg = "rule checked"
        /\ log[i].stderr # <<>>
        /\ log[i].rc = 0
        /\ log[j].msg = "rule checked"
        /\ log[j].error # NoError
        /\ log[j].stderr # <<>>
        /\ log[j].level = "debug"

\* ------------------------------------------------------------------ C28
\* the names the facts of the list have
NamesInList == { config.Facts[f].Name : f \in 1..Len(config.Facts) }

\* C28: when facts of the list share a name every one of them is run and
\* logged, and once the facts are gathered the entry of the name in the
\* environment is decided by the last fact of that name in the list alone:
\* the name has an entry, the stdout of that fact, exactly when that fact
\* exited with code 0 and printed something, whatever the earlier facts of
\* the name did.
C28_LastFactOfANameWins ==
    pc \in {"actions", "returned"} =>
        /\ DOMAIN environment \subseteq NamesInList
        /\ \A name \in NamesInList :
              LET last == Max(FactsNamed(name))
              IN /\ \A f \in FactsNamed(name) :
                       /\ calls[f].kind = "fact"
                       /\ calls[f].idx = f
                       /\ calls[f].done
                       /\ CommandLog[f].msg = "fact gathered"
                       /\ CommandLog[f].name = name
                       /\ CommandLog[f].command = config.Facts[f].Command
                 /\ name \in DOMAIN environment <=>
                       (calls[last].cmd.Rc = 0 /\ calls[last].cmd.Stdout # <<>>)
                 /\ name \in DOMAIN environment =>
                       environment[name] = calls[last].cmd.Stdout

\* C28 witness: of two facts of one name the first printed a value and
\* exited 0 and the second failed: the name has no entry
C28_Witness ==
    /\ pc = "actions"
    /\ Len(config.Facts) = 2
    /\ config.Facts[1].Name = config.Facts[2].Name
    /\ calls[1].cmd.Rc = 0
    /\ calls[1].cmd.Stdout # <<>>
    /\ calls[2].cmd.Rc # 0
    /\ environment = EmptyEnvironment

\* ------------------------------------------------------------------ C29
\* C29: every fact command is invoked with an empty injected environment,
\* the timeout of 5 seconds and the working directory of NewCommand, and
\* with the shell of the fact when it names one and /bin/sh otherwise; so
\* the command of a fact is never given the value of a fact gathered before
\* it in the pass.
C29_FactInvocation ==
    \A i \in Calls("fact") :
        LET fact == config.Facts[calls[i].idx]
        IN /\ calls[i].cmd.Command = fact.Command
           /\ calls[i].cmd.Environment = EmptyEnvironment
           /\ DOMAIN calls[i].cmd.Environment = {}
           /\ calls[i].cmd.Timeout = 5
           /\ calls[i].cmd.Directory = NewCommand(fact.Command).Directory
           /\ calls[i].cmd.Shell = ShellAskedFor(fact.Shell)

\* C29 witness: a fact that names a shell is run after a fact of another
\* name, run with /bin/sh, has given a value
C29_Witness ==
    /\ pc = "facts"
    /\ Len(calls) = 2
    /\ calls[1].cmd.Shell = "/bin/sh"
    /\ calls[1].cmd.Rc = 0
    /\ calls[1].cmd.Stdout # <<>>
    /\ calls[2].cmd.Shell = "/bin/bash"
    /\ toEnvironment(gatheredFacts) # EmptyEnvironment

\* ------------------------------------------------------------------ C30
\* l begins with the items of k, in the order of k
StartsWith(l, k) == Len(l) >= Len(k) /\ \A i \in 1..Len(k) : l[i] = k[i]

\* l ends with the items of k, in the order of k
EndsWith(l, k) ==
    Len(l) >= Len(k) /\ \A i \in 1..Len(k) : l[Len(l) - Len(k) + i] = k[i]

\* C30: for the lists Merge concatenates: after c.Merge(m) the facts of c are
\* the facts c had, unchanged and in their order, followed by the facts of m
\* in their order, and the same holds of the actions; nothing of the
\* receiver is removed, replaced or reordered, and an empty list of m leaves
\* the list of the receiver as it was.
C30_MergeAppendsLists ==
    [][ (pc = "config" /\ pc' = "merged") =>
          LET c == calls'[Len(calls') - 1].cmd
              m == calls'[Len(calls')].cmd
          IN /\ c = config
             /\ m \in MergeArguments
             /\ Len(config'.Facts) = Len(c.Facts) + Len(m.Facts)
             /\ StartsWith(config'.Facts, c.Facts)
             /\ EndsWith(config'.Facts, m.Facts)
             /\ Len(config'.Actions) = Len(c.Actions) + Len(m.Actions)
             /\ StartsWith(config'.Actions, c.Actions)
             /\ EndsWith(config'.Actions, m.Actions)
             /\ m.Facts = <<>> => config'.Facts = c.Facts
             /\ m.Actions = <<>> => config'.Actions = c.Actions
      ]_vars

\* C30 witness: a configuration with a fact and an action has been merged
\* with one that has two other facts and another action
C30_Witness ==
    /\ pc = "merged"
    /\ Len(calls) = 2
    /\ Len(calls[1].cmd.Facts) = 1
    /\ Len(calls[2].cmd.Facts) = 2
    /\ Len(config.Facts) = 3
    /\ config.Facts[1] # config.Facts[2]
    /\ Len(config.Actions) = 2
    /\ config.Actions[1] # config.Actions[2]

\* C31: the results of the facts are not carried over between passes: the
\* environment of a pass is built from the fact results of that pass only,
\* so a fact that gave an entry in the pass before and fails in this pass
\* leaves no entry, and gathering leaves the facts of the configuration
\* itself with empty results.
C31_NoCarryOver ==
    /\ InPass(pc) =>
          \A f \in DOMAIN config.Facts : config.Facts[f].Result = ZeroCommand
    /\ pc = "facts" =>
          /\ \A n \in DOMAIN gatheredFacts :
                /\ FactCallsNamed(n) # {}
                /\ gatheredFacts[n].Result \in { calls[i].cmd : i \in FactCallsNamed(n) }
          /\ (sub = "ready" /\ fi > Len(config.Facts)) =>
                executeActionsEnvironment(gatheredFacts) = DerivedEnvironment
    /\ pc \in {"actions", "returned"} =>
          /\ environment = DerivedEnvironment
          /\ \A j \in EvaluationCalls : calls[j].cmd.Environment = DerivedEnvironment

\* C31 witness: the facts of a pass are gathered; a fact that gave an entry
\* of the environment in the pass before has failed and gives none
C31_Witness ==
    /\ pc = "facts"
    /\ sub = "ready"
    /\ fi > Len(config.Facts)
    /\ \E n \in DOMAIN before :
          /\ n \in DOMAIN gatheredFacts
          /\ gatheredFacts[n].Result.Rc # 0
          /\ gatheredFacts[n].Result.Stdout # <<>>
          /\ n \notin DOMAIN executeActionsEnvironment(gatheredFacts)

\* C32: when the serialization of the configuration or the checksum fails,
\* CalculateHash panics: the pass stops there and the process ends, the
\* checksum stored process-wide is left as it was, and no fact, rule or
\* action command of that pass is run.
C32_HashPanicStopsThePass ==
    [][ /\ (pc = "idle" /\ pc' # pc /\ file.Error = "OK" /\ failing \in Mocks) =>
              /\ pc' = "terminated"
              /\ exitStatus' = 2
              /\ configurationHash' = configurationHash
              /\ applicationStarted' = applicationStarted
              /\ calls' = <<>>
              /\ inflight' = 0
              /\ log' = <<>>
        /\ pc = "terminated" =>
              /\ pc' = "terminated"
              /\ calls' = calls
              /\ configurationHash' = configurationHash
      ]_vars

\* C32 witness: after a pass that stored a checksum, the serialization or
\* the checksum failed in the next pass and the process has ended
C32_Witness ==
    /\ pc = "terminated"
    /\ exitStatus = 2
    /\ failing \in Mocks
    /\ applicationStarted
    /\ configurationHash # ZeroHash
    /\ calls = <<>>

\* C33: the start-up flag, once set, is never reset, and the "starting"
\* event is emitted exactly once over all the passes of a process: in the
\* first pass, before any fact is gathered, and in no later pass; the stored
\* checksum is written at most once per pass, when the pass begins.
C33_StartsOnce ==
    [][ /\ applicationStarted => applicationStarted'
        /\ (pc = "idle" /\ pc' = "facts") =>
              /\ applicationStarted'
              /\ calls' = <<>>
              /\ Reports(log', "starting") = (IF applicationStarted THEN {} ELSE {1})
        /\ (InPass(pc) /\ InPass(pc')) =>
              /\ Reports(log', "starting") = Reports(log, "starting")
              /\ configurationHash' = configurationHash
        /\ ~InPass(pc') => Reports(log', "starting") = {}
        /\ configurationHash' # configurationHash => (pc = "idle" /\ pc' = "facts")
      ]_vars

\* C33 witness: a later pass has returned: it stored a new checksum, ran
\* commands and did not log "starting"
C33_Witness ==
    /\ pc = "returned"
    /\ calls # <<>>
    /\ Reports(log, "starting") = {}
    /\ Reports(log, "configuration loaded") # {}

\* the engine under the scheduling of the program, on the facts and actions
\* of the files of the loop: the program has one thread, which takes its
\* next step whenever it has one; every command finishes or is killed at its
\* timeout, and every sleep ends
InitLive ==
    /\ mode \in Modes
    /\ flags = NoFlags
    /\ file \in { EngineFile(c) : c \in DaemonEngines }
    /\ Boot

\* the steps inside a pass and those of the loop after it
Running ==
    \/ FactStart
    \/ FactFinish
    \/ FactsDone
    \/ RuleStart
    \/ RuleFinish
    \/ ActionStart
    \/ ActionFinish
    \/ RunReturn
    \/ OneshotExit
    \/ DaemonSleep
    \/ DaemonLoop

\* the step that begins a pass: RunStart is the only action that takes it,
\* and over a loadable file it can be taken whenever the program is idle
RunCalled == pc = "idle" /\ pc' = "facts"

SpecLive == InitLive /\ [][Next]_vars /\ WF_vars(Running) /\ WF_pc(RunCalled)

\* what C34 says of the commands of a pass
C34_PassCounts ==
    InPass(pc) =>
        /\ \A f \in DOMAIN config.Facts : Cardinality(FactCalls(f)) <= 1
        /\ \A a \in ActionIndexes :
              /\ Cardinality(ActionCalls(a)) <= 1
              /\ \A r \in RuleIndexes(a) : Cardinality(RuleCalls(a, r)) <= 1
        /\ \A i \in DOMAIN calls :
              \/ calls[i].kind = "fact" /\ calls[i].idx \in DOMAIN config.Facts
              \/ /\ calls[i].kind = "rule"
                 /\ calls[i].idx \in ActionIndexes
                 /\ calls[i].rule \in RuleIndexes(calls[i].idx)
              \/ calls[i].kind = "action" /\ calls[i].idx \in ActionIndexes
        /\ Len(calls) <= CommandsIn(config.Facts, config.Actions)
        /\ pc \in {"actions", "returned"} =>
              \A f \in DOMAIN config.Facts : Cardinality(FactCalls(f)) = 1
        /\ pc = "returned" =>
              /\ DoneCalls = DOMAIN calls
              /\ config = CalculateHash(mergeConfiguration(LoadConfigFile(file),
                                                           overwrite(mode, flags)))

C36_OnlyTrailingTrimmed ==
    \A i \in DoneCalls :
        calls[i].kind \in {"fact", "rule", "action"} =>
            /\ calls[i].cmd.Stdout = TrimRight(calls[i].proc.out)
            /\ calls[i].cmd.Stderr = TrimRight(calls[i].proc.err)

\* C36 witness: a command whose error output began with a newline has
\* returned, and the stderr recorded for it does not begin with one
C36_Witness ==
    \E i \in DoneCalls :
        /\ calls[i].kind \in {"fact", "rule", "action"}
        /\ calls[i].proc.err # <<>>
        /\ Head(calls[i].proc.err) = NL
        /\ calls[i].cmd.Stderr # <<>>
        /\ Head(calls[i].cmd.Stderr) # NL

\* the targets an event of the level is written to, as a set
WrittenTo(level) ==
    { logLines(level, loggers)[k] : k \in DOMAIN logLines(level, loggers) }

\* C37 as claimed: quiet mode suppresses only the messages that are not
\* errors: with Quiet set, the events at debug, info and warn level are not
\* written to the console, while the events at error level, the line of a
\* fatal error among them, are still written to stderr.
C37_QuietKeepsErrors ==
    ((InPass(pc) \/ (pc = "terminated" /\ applicationStarted)) /\ config.Logging.Quiet) =>
        \A i \in DOMAIN log :
            IF log[i].level = "error"
            THEN "stderr" \in WrittenTo(log[i].level)
            ELSE WrittenTo(log[i].level) \cap {"stdout", "stderr"} = {}

\* C37 witness: in a quiet pass a command has failed: its event has the
\* level error and is written to the log file alone, as the events of the
\* other levels are
C37_Witness ==
    /\ InPass(pc)
    /\ config.Logging.Quiet
    /\ \E i \in DOMAIN log : log[i].level = "error" /\ IsCommandEvent(log[i])
    /\ \E i \in DOMAIN log : log[i].level = "info"
    /\ WrittenTo("error") = {"file"}
    /\ WrittenTo("info") = {"file"}

Loaded(l) == Reports(l, "configuration loaded") # {}

====
